---- MODULE Spec2Model ----
(***************************************************************************)
(* Model of the directory-size scanner of disk-usage-report.py            *)
(* (scan_roots and its helpers normalize_paths, is_under, dir_bucket,     *)
(* add_top_file) together with the path normalizers of fs-search.py and   *)
(* space-scout.py.                                                         *)
(*                                                                         *)
(* A path is a Python str: a sequence of one-character strings.           *)
(***************************************************************************)
EXTENDS Integers, Naturals, Sequences, FiniteSets, TLC

(***************************************************************************)
(* Python str and os.path primitives                                      *)
(***************************************************************************)

\* os.sep on POSIX.
Sep == "/"

\* The characters of the model in code-point order.
CharOrder == <<" ", ",", ".", "/", "a", "b", "d", "e", "h", "k", "l", "n", "s", "t", "x", "~">>

Code(c) == CHOOSE i \in 1..Len(CharOrder) : CharOrder[i] = c

\* str.__lt__: lexicographic comparison by code point.
StrLess(s, t) ==
    \E i \in 1..(Len(t)) :
        /\ i <= Len(s) + 1
        /\ \A j \in 1..(i - 1) : s[j] = t[j]
        /\ \/ i = Len(s) + 1
           \/ Code(s[i]) < Code(t[i])

\* str.startswith
StartsWith(s, p) ==
    /\ Len(p) <= Len(s)
    /\ SubSeq(s, 1, Len(p)) = p

\* str.rstrip(os.sep)
RECURSIVE RStripSep(_)
RStripSep(s) ==
    IF s # <<>> /\ s[Len(s)] = Sep THEN RStripSep(SubSeq(s, 1, Len(s) - 1)) ELSE s

\* str.split(c): the list of pieces between separators (pieces may be empty).
RECURSIVE SplitFrom(_, _, _, _)
SplitFrom(s, c, i, cur) ==
    IF i > Len(s) THEN <<cur>>
    ELSE IF s[i] = c THEN <<cur>> \o SplitFrom(s, c, i + 1, <<>>)
    ELSE SplitFrom(s, c, i + 1, Append(cur, s[i]))

SplitOn(s, c) == SplitFrom(s, c, 1, <<>>)

\* str.split(os.sep)
Split(s) == SplitOn(s, Sep)

\* os.path.join(a, b) for one more component.
Join2(a, b) ==
    IF b # <<>> /\ b[1] = Sep THEN b
    ELSE IF a = <<>> \/ a[Len(a)] = Sep THEN a \o b
    ELSE a \o <<Sep>> \o b

\* os.path.join(root, *parts)
RECURSIVE JoinAll(_, _)
JoinAll(root, parts) ==
    IF parts = <<>> THEN root ELSE JoinAll(Join2(root, Head(parts)), Tail(parts))

\* sep.join(comps)
RECURSIVE SepJoin(_)
SepJoin(comps) ==
    IF comps = <<>> THEN <<>>
    ELSE IF Len(comps) = 1 THEN comps[1]
    ELSE comps[1] \o <<Sep>> \o SepJoin(Tail(comps))

Dot == <<".">>
DotDot == <<".", ".">>

\* The component loop of posixpath.normpath.
RECURSIVE NormComps(_, _, _)
NormComps(comps, acc, initial) ==
    IF comps = <<>> THEN acc
    ELSE LET c == Head(comps) IN
         IF c = <<>> \/ c = Dot THEN NormComps(Tail(comps), acc, initial)
         ELSE IF \/ c # DotDot
                 \/ (initial = 0 /\ acc = <<>>)
                 \/ (acc # <<>> /\ acc[Len(acc)] = DotDot)
              THEN NormComps(Tail(comps), Append(acc, c), initial)
         ELSE IF acc # <<>>
              THEN NormComps(Tail(comps), SubSeq(acc, 1, Len(acc) - 1), initial)
         ELSE NormComps(Tail(comps), acc, initial)

\* posixpath.normpath
Normpath(p) ==
    IF p = <<>> THEN Dot
    ELSE LET initial == IF p[1] # Sep THEN 0
                        ELSE IF StartsWith(p, <<Sep, Sep>>) /\ ~StartsWith(p, <<Sep, Sep, Sep>>)
                             THEN 2 ELSE 1
             body == SepJoin(NormComps(Split(p), <<>>, initial))
             full == [i \in 1..initial |-> Sep] \o body
         IN IF full = <<>> THEN Dot ELSE full

\* The working directory of the process.
Cwd == <<"/", "t">>

\* The home directory of the user (os.path.expanduser of "~").
Home == <<"/", "h">>

\* posixpath.abspath
Abspath(p) == Normpath(IF p # <<>> /\ p[1] = Sep THEN p ELSE Join2(Cwd, p))

\* posixpath.expanduser for "~" and "~/...".
Expanduser(p) ==
    IF p = <<>> \/ p[1] # "~" THEN p
    ELSE IF Len(p) = 1 THEN Home
    ELSE IF p[2] = Sep THEN RStripSep(Home) \o SubSeq(p, 2, Len(p))
    ELSE p


\* posixpath.dirname
Dirname(p) ==
    LET idx == {i \in 1..Len(p) : p[i] = Sep}
        last == IF idx = {} THEN 0 ELSE CHOOSE i \in idx : \A j \in idx : j <= i
        head == SubSeq(p, 1, last)
    IN IF head # <<>> /\ RStripSep(head) # <<>> THEN RStripSep(head) ELSE head

\* posixpath.basename
Basename(p) ==
    LET idx == {i \in 1..Len(p) : p[i] = Sep}
        last == IF idx = {} THEN 0 ELSE CHOOSE i \in idx : \A j \in idx : j <= i
    IN SubSeq(p, last + 1, Len(p))

(***************************************************************************)
(* The file system the scripts run against                                 *)
(***************************************************************************)

\* Directories that exist.
Dirs == { <<"/">>, <<"/", "t">>, <<"/", "t", "/", "s">>, <<"/", "t", "x">> }

\* Symbolic links to directories: link path -> target.
LinkPaths == { <<"/", "l">> }
LinkTarget(p) == <<"/", "t", "/", "s">>

\* Directory entries that are no directories.
FilePaths ==
    { <<"/", "t", "/", "a">>, <<"/", "t", "/", "k">>,
      <<"/", "t", "/", "s", "/", "b">>, <<"/", "t", "x", "/", "e">> }

\* What os.lstat gives for an entry: a regular file with a size, another kind
\* of entry (symlink, FIFO), or OSError.
Reg(n) == [kind |-> "reg", size |-> n]
Lnk == [kind |-> "lnk", size |-> 8]
Fifo == [kind |-> "fifo", size |-> 0]
StatErr == [kind |-> "err", size |-> 0]

\* The file systems the scans are run against.
FsChoices ==
    { f \in [FilePaths -> {Reg(0), Reg(100), Reg(200), Lnk, Fifo, StatErr}] :
        /\ f[<<"/", "t", "/", "a">>] \in {Reg(100), Reg(0)}
        /\ f[<<"/", "t", "/", "k">>] \in {Lnk, Fifo, StatErr, Reg(100)}
        /\ f[<<"/", "t", "/", "a">>] = Reg(0) => f[<<"/", "t", "/", "k">>] = Reg(100)
        /\ f[<<"/", "t", "/", "s", "/", "b">>] = Reg(200)
        /\ f[<<"/", "t", "x", "/", "e">>] = Reg(200) }

\* os.path.isdir (follows symbolic links)
IsDir(p) == p \in Dirs \/ p \in LinkPaths

\* posixpath._joinrealpath: resolve the components one by one.
RECURSIVE RealFrom(_, _)
RealFrom(path, comps) ==
    IF comps = <<>> THEN path
    ELSE LET c == Head(comps) IN
         IF c = <<>> \/ c = Dot THEN RealFrom(path, Tail(comps))
         ELSE IF c = DotDot THEN RealFrom(Dirname(path), Tail(comps))
         ELSE LET np == Join2(path, c) IN
              IF np \in LinkPaths
              THEN RealFrom(RealFrom(<<Sep>>, Split(LinkTarget(np))), Tail(comps))
              ELSE RealFrom(np, Tail(comps))

\* posixpath.realpath
Realpath(p) ==
    Abspath(RealFrom(IF p # <<>> /\ p[1] = Sep THEN <<Sep>> ELSE <<>>, Split(p)))

\* The names os.scandir lists in a directory: (dirs, nondirs) of os.walk.
DirNames(top) ==
    { Basename(d) : d \in { x \in Dirs \cup LinkPaths : x # <<Sep>> /\ Dirname(x) = Realpath(top) } }
FileNames(top) ==
    { Basename(f) : f \in { x \in FilePaths : Dirname(x) = Realpath(top) } }

\* The non-empty components of a path.
Comps(p) == SelectSeq(Split(p), LAMBDA c : c # <<>>)

RECURSIVE CommonLen(_, _)
CommonLen(a, b) ==
    IF a = <<>> \/ b = <<>> \/ Head(a) # Head(b) THEN 0
    ELSE 1 + CommonLen(Tail(a), Tail(b))

\* posixpath.relpath(path, start)
Relpath(path, start) ==
    LET sl == Comps(Abspath(start))
        pl == Comps(Abspath(path))
        i == CommonLen(sl, pl)
        rel == [k \in 1..(Len(sl) - i) |-> DotDot] \o SubSeq(pl, i + 1, Len(pl))
    IN IF rel = <<>> THEN Dot ELSE JoinAll(Head(rel), Tail(rel))

Min(a, b) == IF a < b THEN a ELSE b
Max(a, b) == IF a > b THEN a ELSE b

\* Python's seq[:k], k possibly negative.
SliceTo(seq, k) ==
    IF k >= 0 THEN SubSeq(seq, 1, Min(k, Len(seq)))
    ELSE SubSeq(seq, 1, Max(0, Len(seq) + k))

(***************************************************************************)
(* Helpers of disk-usage-report.py                                         *)
(***************************************************************************)

\* normalize_paths, had it dropped repeated paths.
RECURSIVE Unique(_, _)
Unique(ps, out) ==
    IF ps = <<>> THEN out
    ELSE IF \E i \in 1..Len(out) : out[i] = Head(ps) THEN Unique(Tail(ps), out)
    ELSE Unique(Tail(ps), Append(out, Head(ps)))

normalize_paths_unique(paths) ==
    LET kept == SelectSeq(paths, LAMBDA p : p # <<>>)
    IN Unique([i \in 1..Len(kept) |-> Realpath(Abspath(kept[i]))], <<>>)

\* normalize_paths of disk-usage-report.py
normalize_paths(paths) ==
    LET kept == SelectSeq(paths, LAMBDA p : p # <<>>)
    IN [i \in 1..Len(kept) |-> Realpath(Abspath(kept[i]))]

\* normalize_paths of fs-search.py
fs_normalize_paths(paths) ==
    LET kept == SelectSeq(paths, LAMBDA p : p # <<>>)
    IN [i \in 1..Len(kept) |-> Realpath(Abspath(Expanduser(kept[i])))]

\* is_under, had it compared the bare prefix without the separator.
is_under_no_sep(path, prefixes) ==
    \E prefix \in prefixes : StartsWith(path, RStripSep(prefix))

\* is_under, had it matched the descendants of a prefix but not the prefix.
is_under_strict(path, prefixes) ==
    \E prefix \in prefixes : StartsWith(path, RStripSep(prefix) \o <<Sep>>)

\* is_under of disk-usage-report.py
is_under(path, prefixes) ==
    \E prefix \in prefixes :
        \/ path = prefix
        \/ StartsWith(path, RStripSep(prefix) \o <<Sep>>)

\* is_under of fs-search.py: an empty prefix is passed over.
fs_is_under(path, prefixes) ==
    \E prefix \in prefixes :
        /\ prefix # <<>>
        /\ \/ path = prefix
           \/ StartsWith(path, RStripSep(prefix) \o <<Sep>>)

\* dir_bucket, had it counted the root as depth 1.
dir_bucket_one_based(root0, dirpath0, max_depth) ==
    LET root == Realpath(root0)
        dirpath == Realpath(dirpath0)
        rel == Relpath(dirpath, root)
        parts == Split(rel)
        depth == Min(Len(parts), max_depth - 1)
    IN IF dirpath = root THEN root
       ELSE IF rel = Dot THEN root
       ELSE JoinAll(root, SliceTo(parts, depth))

\* dir_bucket, had it taken max() for min().
dir_bucket_uncapped(root0, dirpath0, max_depth) ==
    LET root == Realpath(root0)
        dirpath == Realpath(dirpath0)
        rel == Relpath(dirpath, root)
        parts == Split(rel)
        depth == Max(Len(parts), max_depth)
    IN IF dirpath = root THEN root
       ELSE IF rel = Dot THEN root
       ELSE JoinAll(root, SliceTo(parts, depth))

dir_bucket(root0, dirpath0, max_depth) ==
    LET root == Realpath(root0)
        dirpath == Realpath(dirpath0)
        rel == Relpath(dirpath, root)
        parts == Split(rel)
        depth == Min(Len(parts), max_depth)
    IN IF dirpath = root THEN root
       ELSE IF rel = Dot THEN root
       ELSE JoinAll(root, SliceTo(parts, depth))


\* Python's tuple comparison on (size, path) items.
ItemLess(x, y) == x[1] < y[1] \/ (x[1] = y[1] /\ StrLess(x[2], y[2]))

\* heapq._siftdown, positions counted from 0.
RECURSIVE SiftDown(_, _, _, _)
SiftDown(heap, startpos, pos, newitem) ==
    LET parentpos == (pos - 1) \div 2 IN
    IF pos > startpos /\ ItemLess(newitem, heap[parentpos + 1])
    THEN SiftDown([heap EXCEPT ![pos + 1] = heap[parentpos + 1]], startpos, parentpos, newitem)
    ELSE [heap EXCEPT ![pos + 1] = newitem]

\* The loop of heapq._siftup: move the smaller child up until a leaf is hit.
RECURSIVE SiftUpLoop(_, _, _, _)
SiftUpLoop(heap, startpos, pos, newitem) ==
    LET endpos == Len(heap)
        left == 2 * pos + 1
        right == left + 1
        childpos == IF right < endpos /\ ~ItemLess(heap[left + 1], heap[right + 1])
                    THEN right ELSE left
    IN IF left < endpos
       THEN SiftUpLoop([heap EXCEPT ![pos + 1] = heap[childpos + 1]], startpos, childpos, newitem)
       ELSE SiftDown([heap EXCEPT ![pos + 1] = newitem], startpos, pos, newitem)

\* heappush, had it appended without sifting.
heappush_append(heap, item) == Append(heap, item)

heappush(heap, item) == SiftDown(Append(heap, item), 0, Len(heap), item)

heapreplace(heap, item) == SiftUpLoop([heap EXCEPT ![1] = item], 0, 0, item)

\* add_top_file, had it replaced the minimum without comparing sizes.
add_top_file_always(heap, size, path, limit) ==
    IF limit <= 0 THEN heap
    ELSE IF size <= 0 THEN heap
    ELSE IF Len(heap) < limit THEN heappush(heap, <<size, path>>)
    ELSE heapreplace(heap, <<size, path>>)

\* add_top_file, had it filled the heap up to limit + 1 entries.
add_top_file_one_more(heap, size, path, limit) ==
    IF limit <= 0 THEN heap
    ELSE IF size <= 0 THEN heap
    ELSE IF Len(heap) <= limit THEN heappush(heap, <<size, path>>)
    ELSE IF size > heap[1][1] THEN heapreplace(heap, <<size, path>>)
    ELSE heap

\* add_top_file, had it only refused negative sizes.
add_top_file_keeps_zero(heap, size, path, limit) ==
    IF limit <= 0 THEN heap
    ELSE IF size < 0 THEN heap
    ELSE IF Len(heap) < limit THEN heappush(heap, <<size, path>>)
    ELSE IF size > heap[1][1] THEN heapreplace(heap, <<size, path>>)
    ELSE heap

add_top_file(heap, size, path, limit) ==
    IF limit <= 0 THEN heap
    ELSE IF size <= 0 THEN heap
    ELSE IF Len(heap) < limit THEN heappush(heap, <<size, path>>)
    ELSE IF size > heap[1][1] THEN heapreplace(heap, <<size, path>>)
    ELSE heap

\* sorted(items, key=lambda x: x[0], reverse=True): stable, largest first.
RECURSIVE SortedDesc(_)
SortedDesc(items) ==
    IF items = <<>> THEN <<>>
    ELSE LET rest == SortedDesc(SubSeq(items, 1, Len(items) - 1))
             x == items[Len(items)]
             n == Cardinality({i \in 1..Len(rest) : rest[i][1] >= x[1]})
         IN SubSeq(rest, 1, n) \o <<x>> \o SubSeq(rest, n + 1, Len(rest))

(***************************************************************************)
(* A dict, in insertion order: a sequence of <<key, value>> pairs          *)
(***************************************************************************)
Keys(d) == { d[i][1] : i \in 1..Len(d) }

\* dict.get, had the running total been overwritten instead of added to.
DictGetDefault(d, k, default) == default

DictGet(d, k, default) ==
    IF k \in Keys(d) THEN d[CHOOSE i \in 1..Len(d) : d[i][1] = k][2] ELSE default

\* dict.setdefault in the place of the assignment: the first value stays.
DictSetFirst(d, k, v) ==
    IF k \in Keys(d) THEN d ELSE Append(d, <<k, v>>)

DictSet(d, k, v) ==
    IF k \in Keys(d)
    THEN [i \in 1..Len(d) |-> IF d[i][1] = k THEN <<k, v>> ELSE d[i]]
    ELSE Append(d, <<k, v>>)

\* The sum of g[x] for the x in S.
RECURSIVE SumOver(_, _)
SumOver(S, g) ==
    IF S = {} THEN 0
    ELSE LET x == CHOOSE y \in S : TRUE IN g[x] + SumOver(S \ {x}, g)

RECURSIVE SumValues(_)
SumValues(d) == IF d = <<>> THEN 0 ELSE d[1][2] + SumValues(Tail(d))

\* The orders in which os.scandir may list a set of names.
RECURSIVE Orders(_)
Orders(S) ==
    IF S = {} THEN { <<>> }
    ELSE UNION { { <<x>> \o o : o \in Orders(S \ {x}) } : x \in S }

Reverse(q) == [i \in 1..Len(q) |-> q[Len(q) + 1 - i]]


(***************************************************************************)
(* Path lists of space-scout.py                                            *)
(***************************************************************************)

\* str.strip() of blanks
RECURSIVE Strip(_)
Strip(s) ==
    IF s # <<>> /\ s[1] = " " THEN Strip(Tail(s))
    ELSE IF s # <<>> /\ s[Len(s)] = " " THEN Strip(SubSeq(s, 1, Len(s) - 1))
    ELSE s

\* shlex.split of a chunk without quotes or escapes: the blank-separated words.
ShlexSplit(chunk) == SelectSeq(SplitOn(chunk, " "), LAMBDA w : w # <<>>)

RECURSIVE Flatten(_)
Flatten(qs) == IF qs = <<>> THEN <<>> ELSE Head(qs) \o Flatten(Tail(qs))

\* parse_path_list, lines 65-72: split on commas, then on blanks.
Tokens(items) ==
    Flatten([i \in 1..Len(items) |->
        LET chunks == SplitOn(items[i], ",")
            kept == SelectSeq([j \in 1..Len(chunks) |-> Strip(chunks[j])],
                              LAMBDA c : c # <<>>)
        IN Flatten([j \in 1..Len(kept) |-> ShlexSplit(kept[j])])])

\* expand_normalize
expand_normalize(p) == Realpath(Abspath(Expanduser(p)))

\* parse_path_list, lines 74-81: normalize, keep the first occurrence of each.
RECURSIVE DropSeen(_, _)
DropSeen(ps, out) ==
    IF ps = <<>> THEN out
    ELSE LET x == expand_normalize(Head(ps)) IN
         IF \E i \in 1..Len(out) : out[i] = x
         THEN DropSeen(Tail(ps), out)
         ELSE DropSeen(Tail(ps), Append(out, x))

parse_path_list(items) == IF items = <<>> THEN <<>> ELSE DropSeen(Tokens(items), <<>>)

(***************************************************************************)
(* State                                                                   *)
(***************************************************************************)

\* Longest list of roots given on the command line.
MaxRoots == 2
\* Largest --max-depth and --top-files tried.
MaxDepth == 2
MaxLimit == 2

\* Raw path arguments: absolute, with a trailing separator, relative to the
\* working directory, and missing.
RawRoots ==
    { <<"/">>, <<"/", "t", "/">>, <<"s">>, <<"/", "n">> }

RECURSIVE SeqsUpTo(_, _)
SeqsUpTo(S, n) ==
    IF n = 0 THEN { <<>> }
    ELSE LET shorter == SeqsUpTo(S, n - 1)
         IN shorter \cup { Append(q, x) : q \in { r \in shorter : Len(r) = n - 1 }, x \in S }

\* The roots given after the first one.
MoreRoots == { <<"/", "t", "/">>, <<"s">> }

\* The lists of roots: none, or any root followed by up to MaxRoots - 1 more.
RootArgs ==
    { <<>> } \cup { << r >> \o more : r \in RawRoots, more \in SeqsUpTo(MoreRoots, MaxRoots - 1) }
ExcludeArgs == { <<>>, << <<"/", "t", "/", "s">>, <<>> >>, << <<"/", "t">> >> }
DepthArgs == (-1)..MaxDepth
LimitArgs == {0, MaxLimit, 10}
TopDirsArgs == {1, 30}

VARIABLES
    st,              \* the file system: what os.lstat gives for each entry
    arg_roots,       \* scan_roots parameter roots, as given
    arg_exclude,     \* scan_roots parameter exclude, as given
    max_depth,       \* scan_roots parameter
    top_files_limit, \* scan_roots parameter; the limit of add_top_file
    pc,              \* "start", "traversing", "done", "reported"; "call" for one helper
    roots,           \* the normalized roots
    exclude_set,     \* the normalized excludes
    root_idx,        \* index in roots of the root being walked (0 before the first)
    stack,           \* os.walk: directories still to be yielded, next one last
    dirpath_real,    \* the directory whose files are being counted
    bucket,          \* its bucket
    filenames,       \* its entries not yet looked at
    dir_sizes,       \* dict bucket -> bytes
    top_files,       \* the heap of (size, path)
    total_bytes,
    warnings,        \* roots reported on stderr
    printed,         \* what print_report wrote
    added,           \* history: how often each file's size was added
    placed,          \* history: <<file, bucket, root>> of every addition
    offers,          \* history: number of add_top_file offers with size > 0
    dropped,         \* history: sizes of offers with size > 0 discarded or evicted
    visited,         \* history: <<root index, directory>> yielded by os.walk
    call             \* a helper called on its own: its arguments and result

params == << st, arg_roots, arg_exclude, max_depth, top_files_limit >>
walk == << roots, exclude_set, root_idx, stack, dirpath_real, bucket, filenames >>
output == << warnings, printed >>

vars == << st, arg_roots, arg_exclude, max_depth, top_files_limit, pc, roots,
           exclude_set, root_idx, stack, dirpath_real, bucket, filenames,
           dir_sizes, top_files, total_bytes, warnings, printed,
           added, placed, offers, dropped, visited, call >>

NoPath == <<>>
NoCall == [fn |-> "none"]

\* The state scan_roots starts from, whatever it is called with.
Fresh ==
    /\ roots = <<>>
    /\ exclude_set = {}
    /\ root_idx = 0
    /\ stack = <<>>
    /\ dirpath_real = NoPath
    /\ bucket = NoPath
    /\ filenames = {}
    /\ dir_sizes = <<>>
    /\ top_files = <<>>
    /\ total_bytes = 0
    /\ warnings = <<>>
    /\ printed = <<>>
    /\ added = [f \in FilePaths |-> 0]
    /\ placed = {}
    /\ offers = 0
    /\ dropped = {}
    /\ visited = {}

Init ==
    /\ st \in FsChoices
    /\ arg_roots \in RootArgs
    /\ arg_exclude \in ExcludeArgs
    /\ max_depth \in DepthArgs
    /\ top_files_limit \in LimitArgs
    /\ pc = "start"
    /\ call = NoCall
    /\ Fresh

(***************************************************************************)
(* scan_roots of disk-usage-report.py                                      *)
(***************************************************************************)

\* os.lstat, had its failure been taken for an empty regular file.
LstatNoError(fpath) ==
    IF fpath \in FilePaths /\ st[fpath].kind # "err" THEN st[fpath] ELSE Reg(0)

\* os.stat in the place of os.lstat: a symbolic link counts as a file.
StatFollow(fpath) ==
    IF fpath \notin FilePaths THEN StatErr
    ELSE IF st[fpath].kind = "lnk" THEN Reg(st[fpath].size)
    ELSE st[fpath]

\* os.lstat(fpath)
Lstat(fpath) == IF fpath \in FilePaths THEN st[fpath] ELSE StatErr

Count(q, x) == Cardinality({ i \in 1..Len(q) : q[i] = x })

\* The sizes of the items an offer makes the heap let go of: what was in the
\* heap or offered and is not in the heap afterwards.
Dropped(before, item, after) ==
    IF item[1] <= 0 THEN {}
    ELSE LET all == Append(before, item)
         IN { all[i][1] : i \in { j \in 1..Len(all) : Count(all, all[j]) > Count(after, all[j]) } }

\* Lines 176-180: normalize the arguments, start with empty results.
Begin ==
    /\ pc = "start"
    /\ pc' = "traversing"
    /\ roots' = normalize_paths(arg_roots)
    /\ exclude_set' = { normalize_paths(arg_exclude)[i] : i \in 1..Len(normalize_paths(arg_exclude)) }
    /\ UNCHANGED << params, root_idx, stack, dirpath_real, bucket, filenames, dir_sizes,
                    top_files, total_bytes, output, added, placed, offers, dropped,
                    visited, call >>

BetweenRoots == pc = "traversing" /\ stack = <<>> /\ filenames = {}

\* The loop over the roots, had a missing root ended it (break).
LeaveLoop(idx, n) == n

\* Line 188, continue: the loop goes on with the root after roots[idx + 1].
ContinueLoop(idx, n) == idx + 1

\* Lines 182-188: the next root is no directory: warn and go on.
SkipRoot ==
    /\ BetweenRoots
    /\ root_idx < Len(roots)
    /\ ~IsDir(roots[root_idx + 1])
    /\ root_idx' = ContinueLoop(root_idx, Len(roots))
    /\ warnings' = Append(warnings, roots[root_idx + 1])
    /\ dirpath_real' = NoPath
    /\ bucket' = NoPath
    /\ UNCHANGED << params, pc, roots, exclude_set, stack, filenames, dir_sizes,
                    top_files, total_bytes, printed, added, placed, offers, dropped,
                    visited, call >>

\* Lines 182-190: the next root is a directory: os.walk starts at it.
StartRoot ==
    /\ BetweenRoots
    /\ root_idx < Len(roots)
    /\ IsDir(roots[root_idx + 1])
    /\ root_idx' = root_idx + 1
    /\ stack' = << roots[root_idx + 1] >>
    /\ dirpath_real' = NoPath
    /\ bucket' = NoPath
    /\ UNCHANGED << params, pc, roots, exclude_set, filenames, dir_sizes, top_files,
                    total_bytes, output, added, placed, offers, dropped, visited, call >>

\* os.walk, had it been called with followlinks=True.
WalkIntoLinks(top, dirnames) ==
    Reverse([i \in 1..Len(dirnames) |-> Join2(top, dirnames[i])])

\* The directories os.walk goes into below top, for a listing order dirnames:
\* those that are no symbolic links, the first listed on top of the stack.
WalkInto(top, dirnames) ==
    Reverse(SelectSeq([i \in 1..Len(dirnames) |-> Join2(top, dirnames[i])],
                      LAMBDA d : d \notin LinkPaths))

\* The walk, had an excluded directory only been passed over (continue
\* without dirnames[:] = []).
PrunedKeep(top, dirnames) == WalkInto(top, dirnames)

\* Line 195, dirnames[:] = []: os.walk goes into nothing below top.
Pruned(top, dirnames) == <<>>

\* Lines 190-196: os.walk yields an excluded directory: dirnames[:] = [].
PruneDir ==
    /\ pc = "traversing"
    /\ filenames = {}
    /\ stack # <<>>
    /\ LET top == stack[Len(stack)] IN
       /\ is_under(Realpath(top), exclude_set)
       /\ \E dirnames \in Orders(DirNames(top)) :
              stack' = SubSeq(stack, 1, Len(stack) - 1) \o Pruned(top, dirnames)
       /\ dirpath_real' = Realpath(top)
       /\ bucket' = NoPath
       /\ visited' = visited \cup { <<root_idx, top>> }
    /\ UNCHANGED << params, pc, roots, exclude_set, root_idx, filenames, dir_sizes,
                    top_files, total_bytes, output, added, placed, offers, dropped, call >>

\* Lines 190-199: os.walk yields a directory that is not excluded.
VisitDir ==
    /\ pc = "traversing"
    /\ filenames = {}
    /\ stack # <<>>
    /\ LET top == stack[Len(stack)] IN
       /\ ~is_under(Realpath(top), exclude_set)
       /\ \E dirnames \in Orders(DirNames(top)) :
              stack' = SubSeq(stack, 1, Len(stack) - 1) \o WalkInto(top, dirnames)
       /\ dirpath_real' = Realpath(top)
       /\ bucket' = dir_bucket(roots[root_idx], Realpath(top), max_depth)
       /\ filenames' = FileNames(top)
       /\ visited' = visited \cup { <<root_idx, top>> }
    /\ UNCHANGED << params, pc, roots, exclude_set, root_idx, dir_sizes, top_files,
                    total_bytes, output, added, placed, offers, dropped, call >>

\* Lines 202-212: an entry whose lstat fails or that is no regular file.
SkipEntry ==
    /\ pc = "traversing"
    /\ \E name \in filenames :
        LET fpath == Join2(dirpath_real, name) IN
        /\ Lstat(fpath).kind # "reg"
        /\ filenames' = filenames \ {name}
    /\ UNCHANGED << params, pc, roots, exclude_set, root_idx, stack, dirpath_real,
                    bucket, dir_sizes, top_files, total_bytes, output, added, placed,
                    offers, dropped, visited, call >>

\* Lines 202-221: a regular file is counted.
CountFile ==
    /\ pc = "traversing"
    /\ \E name \in filenames :
        LET fpath == Join2(dirpath_real, name)
            size == Lstat(fpath).size
            heap == add_top_file(top_files, size, fpath, top_files_limit)
        IN
        /\ Lstat(fpath).kind = "reg"
        /\ filenames' = filenames \ {name}
        /\ total_bytes' = total_bytes + size
        /\ dir_sizes' = DictSet(dir_sizes, bucket, DictGet(dir_sizes, bucket, 0) + size)
        /\ top_files' = heap
        /\ added' = [added EXCEPT ![fpath] = @ + 1]
        /\ placed' = placed \cup { <<fpath, bucket, roots[root_idx]>> }
        /\ offers' = IF size > 0 THEN offers + 1 ELSE offers
        /\ dropped' = dropped \cup Dropped(top_files, <<size, fpath>>, heap)
    /\ UNCHANGED << params, pc, roots, exclude_set, root_idx, stack, dirpath_real,
                    bucket, output, visited, call >>

\* Line 223: every root is done: return ReportData.
Finish ==
    /\ BetweenRoots
    /\ root_idx = Len(roots)
    /\ pc' = "done"
    /\ UNCHANGED << params, walk, dir_sizes, top_files, total_bytes, output, added,
                    placed, offers, dropped, visited, call >>

\* print_report: the total, the largest buckets and the files, largest first.
print_report ==
    /\ pc = "done"
    /\ pc' = "reported"
    /\ \E top_dirs_limit \in TopDirsArgs :
        printed' = << [ total |-> total_bytes,
                        dirs |-> SliceTo(SortedDesc([i \in 1..Len(dir_sizes) |->
                                    <<dir_sizes[i][2], dir_sizes[i][1]>>]), top_dirs_limit),
                        files |-> SortedDesc(top_files) ] >>
    /\ UNCHANGED << params, walk, dir_sizes, top_files, total_bytes, warnings, added,
                    placed, offers, dropped, visited, call >>

Next ==
    \/ Begin
    \/ SkipRoot
    \/ StartRoot
    \/ PruneDir
    \/ VisitDir
    \/ SkipEntry
    \/ CountFile
    \/ Finish
    \/ print_report

Spec == Init /\ [][Next]_vars


(***************************************************************************)
(* The helpers called on their own                                         *)
(***************************************************************************)

\* One file system for the calls that only resolve paths.
SomeFs == CHOOSE f \in FsChoices : TRUE

\* Nothing of a scan is in progress.
Idle ==
    /\ st = SomeFs
    /\ arg_roots = <<>>
    /\ arg_exclude = <<>>
    /\ max_depth = 0
    /\ pc = "call"
    /\ Fresh

\* ---- the path normalizers ----

\* Longest list of paths normalized.
MaxPaths == 2

\* Raw paths: empty, normalized, with a trailing separator, relative, through
\* a symbolic link, under the home directory, and a comma and blank separated list.
NormInputs ==
    { <<>>, <<"/", "t">>, <<"/", "t", "/">>, <<"s">>, <<"/", "l">>, <<"~", "/", "x">>,
      <<"/", "t", ",", "s", " ", "/", "t">> }

InitNorm ==
    /\ Idle
    /\ top_files_limit = 0
    /\ call \in { [fn |-> "none", paths |-> ps, out |-> <<>>] : ps \in SeqsUpTo(NormInputs, MaxPaths) }

CallNormalizePaths ==
    /\ call.fn = "none"
    /\ call' = [call EXCEPT !.fn = "normalize_paths", !.out = normalize_paths(call.paths)]
    /\ UNCHANGED << params, pc, walk, dir_sizes, top_files, total_bytes, output, added,
                    placed, offers, dropped, visited >>

CallFsNormalizePaths ==
    /\ call.fn = "none"
    /\ call' = [call EXCEPT !.fn = "fs_normalize_paths", !.out = fs_normalize_paths(call.paths)]
    /\ UNCHANGED << params, pc, walk, dir_sizes, top_files, total_bytes, output, added,
                    placed, offers, dropped, visited >>

CallParsePathList ==
    /\ call.fn = "none"
    /\ call' = [call EXCEPT !.fn = "parse_path_list", !.out = parse_path_list(call.paths)]
    /\ UNCHANGED << params, pc, walk, dir_sizes, top_files, total_bytes, output, added,
                    placed, offers, dropped, visited >>

NextNorm ==
    \/ CallNormalizePaths
    \/ CallFsNormalizePaths
    \/ CallParsePathList

SpecNorm == InitNorm /\ [][NextNorm]_vars

\* ---- add_top_file ----

\* Most offers made to one heap.
MaxOffers == 4

OfferSizes == (-1)..3
OfferPaths == { <<"/", "t", "/", "a">>, <<"/", "t", "/", "k">> }

InitTopK ==
    /\ Idle
    /\ top_files_limit \in (-1)..(MaxLimit + 1)
    /\ call = [fn |-> "add_top_file", n |-> 0, before |-> <<>>, item |-> <<0, NoPath>>]

\* One call add_top_file(top_files, size, path, top_files_limit).
Offer ==
    /\ call.n < MaxOffers
    /\ \E size \in OfferSizes, path \in OfferPaths :
        LET heap == add_top_file(top_files, size, path, top_files_limit) IN
        /\ top_files' = heap
        /\ offers' = IF size > 0 THEN offers + 1 ELSE offers
        /\ dropped' = dropped \cup Dropped(top_files, <<size, path>>, heap)
        /\ call' = [call EXCEPT !.n = @ + 1, !.before = top_files, !.item = <<size, path>>]
    /\ UNCHANGED << params, pc, walk, dir_sizes, total_bytes, output, added, placed, visited >>

NextTopK == Offer

SpecTopK == InitTopK /\ [][NextTopK]_vars

\* ---- dir_bucket ----

\* Deepest directory below a root that dir_bucket is called with.
MaxBelow == 3

BucketRoots == { <<"/">>, <<"/", "t">>, <<"/", "t", "/", "s">> }
BucketNames == { <<"s">>, <<"t">>, <<"t", "x">> }

\* max_depth as the contract of the bucket mapper has it: not negative.
BucketDepths == (0..MaxDepth) \cup {999}

InitBucket ==
    /\ Idle
    /\ top_files_limit = 0
    /\ call \in { [fn |-> "none", root |-> r, directory |-> JoinAll(r, below), depth |-> d, out |-> NoPath] :
                    r \in BucketRoots, below \in SeqsUpTo(BucketNames, MaxBelow), d \in BucketDepths }

CallDirBucket ==
    /\ call.fn = "none"
    /\ call' = [call EXCEPT !.fn = "dir_bucket",
                            !.out = dir_bucket(call.root, call.directory, call.depth)]
    /\ UNCHANGED << params, pc, walk, dir_sizes, top_files, total_bytes, output, added,
                    placed, offers, dropped, visited >>

NextBucket == CallDirBucket

SpecBucket == InitBucket /\ [][NextBucket]_vars


\* ---- two scans of an unchanged tree ----

\* The lists of roots of the scans that are run twice.
TwiceRoots ==
    { <<>> } \cup { << r >> \o more : r \in { <<"/">>, <<"/", "t", "/">>, <<"/", "n">> },
                                       more \in SeqsUpTo({ <<"/", "t", "/">> }, MaxRoots - 1) }

InitTwice ==
    /\ st \in FsChoices
    /\ arg_roots \in TwiceRoots
    /\ arg_exclude \in { <<>>, << <<"/", "t", "x">> >> }
    /\ max_depth \in {0, 1}
    /\ top_files_limit \in {1, 10}
    /\ pc = "start"
    /\ call = NoCall
    /\ Fresh

\* The orders a list can be given in.
Perms(q) ==
    { [i \in 1..Len(q) |-> q[f[i]]] :
        f \in { g \in [1..Len(q) -> 1..Len(q)] : \A i, j \in 1..Len(q) : i # j => g[i] # g[j] } }

\* main is run again on the same tree with the same arguments, the roots in
\* any order; call keeps what the first scan returned.
Rescan ==
    /\ pc = "done"
    /\ call.fn = "none"
    /\ call' = [fn |-> "scan_roots", roots |-> arg_roots, dir_sizes |-> dir_sizes,
                top_files |-> top_files, total_bytes |-> total_bytes]
    /\ arg_roots' \in Perms(arg_roots)
    /\ pc' = "start"
    /\ roots' = <<>>
    /\ exclude_set' = {}
    /\ root_idx' = 0
    /\ stack' = <<>>
    /\ dirpath_real' = NoPath
    /\ bucket' = NoPath
    /\ filenames' = {}
    /\ dir_sizes' = <<>>
    /\ top_files' = <<>>
    /\ total_bytes' = 0
    /\ warnings' = <<>>
    /\ printed' = <<>>
    /\ added' = [f \in FilePaths |-> 0]
    /\ placed' = {}
    /\ offers' = 0
    /\ dropped' = {}
    /\ visited' = {}
    /\ UNCHANGED << st, arg_exclude, max_depth, top_files_limit >>

NextTwice ==
    \/ Next
    \/ Rescan

SpecTwice == InitTwice /\ [][NextTwice]_vars

\* ---- is_under ----

\* Most entries in the set of prefixes.
MaxPrefixes == 2

\* Candidates: the root, directories, a sibling that shares a name prefix with
\* another directory, a file, a relative path.
UnderPaths ==
    { <<"/">>, <<"/", "t">>, <<"/", "t", "x">>, <<"/", "t", "/", "s">>,
      <<"/", "t", "/", "s", "/", "b">>, <<"/", "n">>, <<"s">> }

\* Prefixes: normalized, the root, with a trailing separator, empty.
UnderPrefixes ==
    { <<"/">>, <<"/", "t">>, <<"/", "t", "/">>, <<"/", "t", "/", "s">>, <<"s">>, <<>> }

InitUnder ==
    /\ Idle
    /\ top_files_limit = 0
    /\ call \in { [fn |-> "none", path |-> c, prefixes |-> ps, out |-> FALSE] :
                    c \in UnderPaths,
                    ps \in { x \in SUBSET UnderPrefixes : Cardinality(x) <= MaxPrefixes } }

CallIsUnder ==
    /\ call.fn = "none"
    /\ call' = [call EXCEPT !.fn = "is_under", !.out = is_under(call.path, call.prefixes)]
    /\ UNCHANGED << params, pc, walk, dir_sizes, top_files, total_bytes, output, added,
                    placed, offers, dropped, visited >>

CallFsIsUnder ==
    /\ call.fn = "none"
    /\ call' = [call EXCEPT !.fn = "fs_is_under", !.out = fs_is_under(call.path, call.prefixes)]
    /\ UNCHANGED << params, pc, walk, dir_sizes, top_files, total_bytes, output, added,
                    placed, offers, dropped, visited >>

NextUnder ==
    \/ CallIsUnder
    \/ CallFsIsUnder

SpecUnder == InitUnder /\ [][NextUnder]_vars

(***************************************************************************)
(* space-scout.py: the engines                                             *)
(***************************************************************************)

\* under(child, parent): child.relative_to(parent) succeeds.
under(child, parent) ==
    LET c == Comps(child)
        q == Comps(parent)
    IN Len(q) <= Len(c) /\ SubSeq(c, 1, Len(q)) = q

\* len(d.relative_to(root).parts), d at or below root.
Level(d, root) == Len(Comps(d)) - Len(Comps(root))

\* The orders in which the directories of the tree can be listed: one order
\* of the subdirectory names for every directory.
RECURSIVE OrdersFor(_)
OrdersFor(ds) ==
    IF ds = {} THEN { <<>> }
    ELSE LET d == CHOOSE x \in ds : TRUE
         IN { (d :> o) @@ f : o \in Orders(DirNames(d)), f \in OrdersFor(ds \ {d}) }

ListingOrders == OrdersFor(Dirs)

\* The subdirectories of top a walk goes into: symbolic links are not followed.
Kids(top, ord) ==
    SelectSeq([i \in 1..Len(ord[top]) |-> Join2(top, ord[top][i])],
              LAMBDA d : d \notin LinkPaths)

\* walk_python, lines 211-220: the directories os.walk yields below top,
\* nothing below a directory at level >= depth.
RECURSIVE PyWalk(_, _, _, _)
PyWalk(top, root, depth, ord) ==
    << top >> \o
    ( IF Level(top, root) >= depth THEN <<>>
      ELSE LET kids == Kids(top, ord)
           IN Flatten([i \in 1..Len(kids) |-> PyWalk(kids[i], root, depth, ord)]) )

\* add_size, lines 190-209: inc goes to path and to every directory above it
\* up to root, as far as their level is within depth.
RECURSIVE add_size(_, _, _, _, _)
add_size(sizes, root, cur, inc, depth) ==
    IF Level(cur, root) > depth THEN sizes
    ELSE LET more == DictSet(sizes, cur, DictGet(sizes, cur, 0) + inc)
         IN IF cur = root THEN more
            ELSE add_size(more, root, Dirname(cur), inc, depth)

\* walk_python, lines 222-229: the entries of d whose lstat succeeds and that
\* are no symbolic links are added, one after the other.
RECURSIVE AddFiles(_, _, _, _, _)
AddFiles(sizes, root, d, files, depth) ==
    IF files = {} THEN sizes
    ELSE LET f == CHOOSE x \in files : TRUE
             more == IF st[f].kind \in {"err", "lnk"} THEN sizes
                     ELSE add_size(sizes, root, d, st[f].size, depth)
         IN AddFiles(more, root, d, files \ {f}, depth)

RECURSIVE AddDirs(_, _, _, _)
AddDirs(sizes, root, dirs, depth) ==
    IF dirs = <<>> THEN sizes
    ELSE AddDirs(AddFiles(sizes, root, Head(dirs),
                          { f \in FilePaths : Dirname(f) = Head(dirs) }, depth),
                 root, Tail(dirs), depth)

\* walk_python(root, depth), the directories listed in the order ord: the
\* rows (size, path) in the order the sizes were first recorded.
walk_python(root, depth, ord) ==
    LET walked == IF root \in Dirs THEN PyWalk(root, root, depth, ord) ELSE <<>>
        sizes == AddDirs(<< <<root, 0>> >>, root, walked, depth)
    IN [i \in 1..Len(sizes) |-> <<sizes[i][2], sizes[i][1]>>]

\* The size du -b gives for a directory: the lstat sizes of everything below
\* it, a symbolic link counting the length of its target (the directories
\* themselves have size 0 on this file system).
DuSize(top) ==
    SumOver({ f \in FilePaths : under(f, top) }, [f \in FilePaths |-> st[f].size])
    + SumOver({ l \in LinkPaths : under(l, top) }, [l \in LinkPaths |-> Len(LinkTarget(l))])

\* du --max-depth depth: a line for every directory whose level is within
\* depth, the subdirectories before the directory itself.
RECURSIVE DuRows(_, _, _, _)
DuRows(top, root, depth, ord) ==
    IF Level(top, root) > depth THEN <<>>
    ELSE LET kids == Kids(top, ord)
         IN Flatten([i \in 1..Len(kids) |-> DuRows(kids[i], root, depth, ord)])
            \o << <<DuSize(top), top>> >>

\* du exits with an error status when root is missing or an entry below it
\* cannot be read: check_output raises, run_du raises RuntimeError.
DuFails(root) ==
    \/ root \notin Dirs
    \/ \E f \in FilePaths : under(f, root) /\ st[f].kind = "err"

\* run_du(root, depth) when du succeeds: its lines, parsed.
run_du(root, depth, ord) == DuRows(root, root, depth, ord)

(***************************************************************************)
(* space-scout.py: main                                                    *)
(***************************************************************************)

\* 2**31 - 1, the depth of a recursion without -d.
InfiniteDepth == 2147483647

\* classify_and_require_root, lines 126-132: collapse duplicates.
RECURSIVE Collapse(_, _)
Collapse(rs, uniq) ==
    IF rs = <<>> THEN uniq
    ELSE IF \E i \in 1..Len(uniq) : uniq[i] = Head(rs) THEN Collapse(Tail(rs), uniq)
    ELSE Collapse(Tail(rs), Append(uniq, Head(rs)))

\* classify_and_require_root, had only -s/--system required root.
classify_system_only(want_user, want_system, explicit_paths, home) ==
    LET r1 == IF want_user THEN << home >> ELSE <<>>
        r2 == IF want_system
              THEN r1 \o (IF explicit_paths # <<>> THEN explicit_paths ELSE << <<Sep>> >>)
              ELSE r1 \o SelectSeq(explicit_paths,
                                   LAMBDA q : \A i \in 1..Len(r1) : r1[i] # q)
    IN << IF r2 = <<>> THEN << home >> ELSE r2, want_system >>

\* classify_and_require_root: << roots, requires_root >>
classify_and_require_root(want_user, want_system, explicit_paths, home) ==
    LET r1 == IF want_user THEN << home >> ELSE <<>>
        r2 == IF want_system
              THEN r1 \o (IF explicit_paths # <<>> THEN explicit_paths ELSE << <<Sep>> >>)
              ELSE r1
        r3 == IF ~want_system /\ explicit_paths # <<>>
              THEN r2 \o SelectSeq(explicit_paths,
                                   LAMBDA q : \A i \in 1..Len(r2) : r2[i] # q)
              ELSE r2
        requires_root ==
              \/ want_system
              \/ \E i \in 1..Len(explicit_paths) :
                    \/ explicit_paths[i] = <<"/", "h", "o", "m", "e">>
                    \/ ~under(explicit_paths[i], home)
        r4 == IF r3 = <<>> THEN << home >> ELSE r3
    IN << Collapse(r4, <<>>), requires_root >>

\* The command lines: -p lists, -d values (<<>> when the option is absent).
ScoutPathArgs ==
    { <<>>, << <<"/", "t", "/">> >>, << <<"/", "t", ",", "s", " ", "/", "t">> >>,
      << <<"~", "/", "x">> >>, << <<"/", "h", "o", "m", "e">> >> }
ScoutDepthArgs == { <<>> } \cup { << n >> : n \in (-1)..MaxDepth }

InitScout ==
    /\ st \in FsChoices
    /\ arg_roots = <<>>
    /\ arg_exclude = <<>>
    /\ max_depth = 0
    /\ top_files_limit = 0
    /\ pc = "call"
    /\ Fresh
    /\ call \in { [fn |-> "space-scout", at |-> "args", user |-> u, system |-> sy,
                    path |-> pl, recursive |-> r, depth |-> d, engine |-> e,
                    euid_root |-> su, have_du |-> hd, depth_used |-> 0, eff_depth |-> <<>>,
                    roots |-> <<>>, idx |-> 0, per_root |-> <<>>, code |-> -1] :
                    u \in BOOLEAN, sy \in BOOLEAN, pl \in ScoutPathArgs, r \in BOOLEAN,
                    d \in ScoutDepthArgs, e \in {"du", "python"}, su \in BOOLEAN,
                    hd \in BOOLEAN }

ScoutFrame ==
    UNCHANGED << params, pc, walk, dir_sizes, top_files, total_bytes, added, placed,
                 offers, dropped, visited >>

\* main, lines 318-341: the paths, the depth, the roots, the privilege rule.
ScoutStart ==
    /\ call.fn = "space-scout"
    /\ call.at = "args"
    /\ LET home == Realpath(Expanduser(<<"~">>))
           explicit == parse_path_list(call.path)
           classified == classify_and_require_root(call.user, call.system, explicit, home)
       IN
       IF call.depth # <<>> /\ call.depth[1] < 0
       THEN /\ call' = [call EXCEPT !.at = "exit", !.code = 1]
            /\ warnings' = Append(warnings, "Depth must be >= 0")
       ELSE LET depth == IF call.depth = <<>>
                         THEN (IF ~call.recursive THEN 1 ELSE InfiniteDepth)
                         ELSE call.depth[1]
                recursive == IF call.depth = <<>> THEN call.recursive ELSE TRUE
            IN IF classified[2] /\ ~call.euid_root
               THEN /\ call' = [call EXCEPT !.at = "exit", !.code = 2,
                                            !.depth_used = depth, !.recursive = recursive,
                                            !.roots = classified[1]]
                    /\ warnings' = Append(warnings, "Root privileges required")
               ELSE /\ call' = [call EXCEPT !.at = "scan",
                                            !.depth_used = depth, !.recursive = recursive,
                                            !.roots = classified[1]]
                    /\ UNCHANGED warnings
    /\ UNCHANGED printed
    /\ ScoutFrame

\* main, lines 346-363: the next root is measured by the chosen engine.
ScoutScan ==
    /\ call.fn = "space-scout"
    /\ call.at = "scan"
    /\ call.idx < Len(call.roots)
    /\ call.engine = "du" => call.have_du /\ ~DuFails(call.roots[call.idx + 1])
    /\ LET root == call.roots[call.idx + 1]
           eff_depth == IF call.recursive THEN call.depth_used ELSE 0
       IN \E ord \in ListingOrders :
           LET rows == IF call.engine = "du" THEN run_du(root, eff_depth, ord)
                       ELSE walk_python(root, eff_depth, ord)
           IN call' = [call EXCEPT !.idx = @ + 1,
                                   !.eff_depth = Append(@, eff_depth),
                                   !.per_root = DictSet(@, root, rows)]
    /\ UNCHANGED output
    /\ ScoutFrame

\* main, lines 348-361: du is missing or fails: exit code 3.
ScoutFail ==
    /\ call.fn = "space-scout"
    /\ call.at = "scan"
    /\ call.idx < Len(call.roots)
    /\ call.engine = "du"
    /\ ~call.have_du \/ DuFails(call.roots[call.idx + 1])
    /\ call' = [call EXCEPT !.at = "exit", !.code = 3]
    /\ UNCHANGED output
    /\ ScoutFrame

\* main, lines 365-366, and print_rich_table: for every root the top entries,
\* largest first, and the total of all its rows.
ScoutPrint ==
    /\ call.fn = "space-scout"
    /\ call.at = "scan"
    /\ call.idx = Len(call.roots)
    /\ \E top \in {1, 25} :
          printed' = [i \in 1..Len(call.per_root) |->
                        [ root |-> call.per_root[i][1],
                          entries |-> SliceTo(SortedDesc(call.per_root[i][2]), top),
                          total_bytes |-> SumOver(1..Len(call.per_root[i][2]),
                                             [j \in 1..Len(call.per_root[i][2]) |->
                                                 call.per_root[i][2][j][1]]) ]]
    /\ call' = [call EXCEPT !.at = "exit", !.code = 0]
    /\ UNCHANGED warnings
    /\ ScoutFrame

NextScout ==
    \/ ScoutStart
    \/ ScoutScan
    \/ ScoutFail
    \/ ScoutPrint

SpecScout == InitScout /\ [][NextScout]_vars

(***************************************************************************)
(* Properties                                                              *)
(***************************************************************************)

PathT == <<"/", "t">>
PathTS == <<"/", "t", "/", "s">>
FileA == <<"/", "t", "/", "a">>
FileK == <<"/", "t", "/", "k">>
FileB == <<"/", "t", "/", "s", "/", "b">>

Returned == pc \in {"done", "reported"}

\* d is r or lies below r.
UnderDir(d, r) == d = r \/ StartsWith(d, RStripSep(r) \o <<Sep>>)

\* The walk of root r yields directory d and counts its files.
Walked(r, d) == r \in Dirs /\ d \in Dirs /\ UnderDir(d, r) /\ ~is_under(d, exclude_set)

\* f is a regular file in a directory some root's walk counts.
Scanned(f) == st[f].kind = "reg" /\ \E i \in 1..Len(roots) : Walked(roots[i], Dirname(f))

\* The number of roots, with repetitions, whose walk counts the files of d.
TimesWalked(d) == Cardinality({ i \in 1..Len(roots) : Walked(roots[i], d) })


NoDup(q) == \A i, j \in 1..Len(q) : i # j => q[i] # q[j]
Descending(q) == \A i \in 1..(Len(q) - 1) : q[i][1] >= q[i + 1][1]

\* ---- C1 ----
\* The scenario of C1: the root /t with a 100-byte file a in it and a 200-byte
\* file b in its subdirectory s, no other regular file, max_depth = 1, no
\* excludes, top-K limit 10.
C1_Scenario ==
    /\ Returned
    /\ roots = << PathT >>
    /\ exclude_set = {}
    /\ max_depth = 1
    /\ top_files_limit = 10
    /\ st[FileA] = Reg(100)
    /\ st[FileB] = Reg(200)
    /\ st[FileK].kind # "reg"

\* C1 as claimed: in the scenario the scan returns dir_sizes with the root as
\* its only key, mapped to 300, and total_bytes = 300.
C1_Original ==
    C1_Scenario =>
        /\ Keys(dir_sizes) = { PathT }
        /\ DictGet(dir_sizes, PathT, 0) = 300
        /\ total_bytes = 300

\* C1 as amended: in the scenario the scan returns dir_sizes with two keys,
\* the root mapped to 100 and the subdirectory mapped to 200 (with max_depth = 1
\* an immediate subdirectory is its own bucket), and total_bytes = 300.
C1_Amended ==
    C1_Scenario =>
        /\ Len(dir_sizes) = 2
        /\ { dir_sizes[i] : i \in 1..Len(dir_sizes) } = { <<PathT, 100>>, <<PathTS, 200>> }
        /\ total_bytes = 300

C1_Witness == C1_Scenario /\ pc = "done"

\* ---- C2 ----
\* C2 as claimed: the top_files returned by scan_roots is ordered by
\* non-increasing size (looked at for the depths that are not negative).
C2_Original == (pc = "done" /\ max_depth >= 0) => Descending(top_files)

\* C2 as amended: the top_files scan_roots builds and returns is a heapq
\* min-heap (no entry is smaller than its parent, so the smallest entry comes
\* first); the order by non-increasing size is made by print_report, which
\* writes the same records sorted.
C2_Amended ==
    /\ \A i \in 2..Len(top_files) : ~ItemLess(top_files[i], top_files[i \div 2])
    /\ pc = "reported" =>
        /\ Descending(printed[1].files)
        /\ Len(printed[1].files) = Len(top_files)
        /\ \A i \in 1..Len(top_files) :
               Count(printed[1].files, top_files[i]) = Count(top_files, top_files[i])

C2_Witness ==
    /\ pc = "reported"
    /\ Len(top_files) >= 2
    /\ top_files[1][1] < top_files[2][1]

\* ---- C3 ----
\* C3: total conservation: in every state of a scan and in its result,
\* total_bytes equals the sum of the values of dir_sizes.
C3_TotalConservation == total_bytes = SumValues(dir_sizes)

C3_Witness == pc = "done" /\ Len(dir_sizes) >= 2 /\ total_bytes > 0 /\ \E f \in FilePaths : added[f] >= 2

\* ---- C4 ----
\* C4 as claimed: whatever the roots (a root given twice, roots nested in one
\* another), each regular file scanned has its size added exactly once, to
\* exactly one bucket (looked at for the depths that are not negative).
C4_Original ==
    (Returned /\ max_depth >= 0) =>
        \A f \in FilePaths :
            Scanned(f) =>
                /\ added[f] = 1
                /\ Cardinality({ x \in placed : x[1] = f }) = 1

\* C4 as amended: each regular file's size is added once for every entry of
\* the normalized roots whose walk counts the file's directory (the entry is
\* the directory or above it and the directory is not excluded): once when no
\* two roots overlap, more often when a root is repeated or nested in another.
\* Every addition goes to one bucket, which is the file's directory or above
\* it and the walked root or below it. Entries that are no regular files are
\* never added.
C4_Amended ==
    /\ \A x \in placed :
           /\ UnderDir(Dirname(x[1]), x[2])
           /\ UnderDir(x[2], x[3])
    /\ \A f \in FilePaths : added[f] >= Cardinality({ x \in placed : x[1] = f })
    /\ Returned =>
           \A f \in FilePaths :
               added[f] = IF st[f].kind = "reg" THEN TimesWalked(Dirname(f)) ELSE 0

C4_Witness == pc = "done" /\ \E f \in FilePaths : added[f] = 2 /\ Cardinality({ x \in placed : x[1] = f }) = 2

Canonical(p) ==
    /\ p # <<>>
    /\ p[1] = Sep
    /\ p = <<Sep>> \o SepJoin(Comps(p))
    /\ \A i \in 1..Len(Comps(p)) : Comps(p)[i] \notin {Dot, DotDot}
    /\ \A i \in 1..Len(p) : SubSeq(p, 1, i) \notin LinkPaths

C6_HeapBound ==
    /\ Len(top_files) = IF top_files_limit <= 0 THEN 0 ELSE Min(top_files_limit, offers)
    /\ \A i \in 1..Len(top_files) : \A d \in dropped : top_files[i][1] >= d

C6_Witness ==
    /\ call.fn = "add_top_file"
    /\ top_files_limit = 2
    /\ Len(top_files) = 2
    /\ offers >= 4
    /\ Cardinality(dropped) >= 2

\* ---- C7 ----
\* C7 as claimed: the scan returns min(top_files_limit, number of regular
\* files with size > 0 in the scanned tree) records, each at least as large as
\* every scanned file that has no record (looked at for the depths that are
\* not negative).
C7_Original ==
    (pc = "done" /\ max_depth >= 0) =>
        /\ Len(top_files) = Min(top_files_limit,
                                Cardinality({ f \in FilePaths : Scanned(f) /\ st[f].size > 0 }))
        /\ \A f \in FilePaths :
               (Scanned(f) /\ \A i \in 1..Len(top_files) : top_files[i][2] # f) =>
                   \A i \in 1..Len(top_files) : top_files[i][1] >= st[f].size

\* C7 as amended: the scan returns min(top_files_limit, number of offers of a
\* regular file with size > 0) records (none when the limit is <= 0), a file
\* being offered once for every root whose walk counts its directory, so that
\* a file under a repeated or nested root can have several records; every
\* record is at least as large as every scanned file that has no record.
C7_Amended ==
    pc = "done" =>
        /\ Len(top_files) =
               Min(Max(top_files_limit, 0),
                   SumOver({ f \in FilePaths : st[f].kind = "reg" /\ st[f].size > 0 },
                           [f \in FilePaths |-> TimesWalked(Dirname(f))]))
        /\ \A f \in FilePaths :
               (Scanned(f) /\ \A i \in 1..Len(top_files) : top_files[i][2] # f) =>
                   \A i \in 1..Len(top_files) : top_files[i][1] >= st[f].size

C7_Witness ==
    /\ pc = "done"
    /\ top_files_limit = 2
    /\ Len(top_files) = 2
    /\ top_files[1][2] = top_files[2][2]
    /\ \E f \in FilePaths : Scanned(f) /\ st[f].size > 0 /\ \A i \in 1..2 : top_files[i][2] # f

\* ---- C8 ----
\* C8: an add_top_file offer with limit <= 0 or size <= 0 leaves the heap as
\* it was, and no entry of the heap has a size of 0 (or less).
C8_NoOpOffer ==
    /\ (call.n > 0 /\ (top_files_limit <= 0 \/ call.item[1] <= 0)) => top_files = call.before
    /\ \A i \in 1..Len(top_files) : top_files[i][1] > 0

C8_Witness ==
    /\ call.fn = "add_top_file"
    /\ call.n > 1
    /\ call.item[1] = 0
    /\ call.before # <<>>
    /\ Len(call.before) < top_files_limit

\* ---- C9 ----
\* The number of path components of bucket b below root r.
ComponentsBelow(b, r) == Len(Comps(b)) - Len(Comps(r))

\* C9: bucket depth bound: every key of dir_sizes produced while scanning
\* root R with max_depth D has at most D path components relative to R.
C9_DepthBound == \A x \in placed : ComponentsBelow(x[2], x[3]) <= max_depth

\* The bound for the depths that are not negative.
C9_DepthBoundFromZero == max_depth >= 0 => C9_DepthBound

\* ---- C10 ----
\* The path with the given components.
PathOf(comps) == <<Sep>> \o SepJoin(comps)

\* C10: dir_bucket(root, directory, max_depth) is root when directory = root
\* and otherwise root joined with the first min(n, max_depth) of the n
\* components of directory relative to root; it is directory or above it;
\* with max_depth = 0 it is root.
C10_DirBucket ==
    call.fn = "dir_bucket" =>
        LET r == Comps(call.root)
            d == Comps(call.directory)
            n == Len(d) - Len(r)
        IN
        /\ call.out = IF call.directory = call.root THEN call.root
                      ELSE PathOf(SubSeq(d, 1, Len(r) + Min(n, call.depth)))
        /\ UnderDir(call.directory, call.out)
        /\ call.depth = 0 => call.out = call.root

C10_Witness ==
    /\ call.fn = "dir_bucket"
    /\ call.depth = 1
    /\ Len(Comps(call.directory)) - Len(Comps(call.root)) = 3
    /\ call.out # call.root
    /\ call.out # call.directory

\* ---- C11 ----

\* The entry without its trailing separators, found by position: the
\* shortest prefix of the entry that only separators follow.
Stem(e) ==
    LET k == CHOOSE n \in 0..Len(e) :
                 /\ \A i \in (n + 1)..Len(e) : e[i] = Sep
                 /\ n > 0 => e[n] # Sep
    IN SubSeq(e, 1, k)

\* path continues the sequence s with a separator.
Continues(path, s) ==
    /\ Len(path) > Len(s)
    /\ SubSeq(path, 1, Len(s)) = s
    /\ path[Len(s) + 1] = Sep

\* C11 as stated: is_under is true exactly when the candidate equals an entry
\* or starts with that entry followed by the separator.
C11_Original ==
    call.fn \in {"is_under", "fs_is_under"} =>
        (call.out <=> \E e \in call.prefixes : call.path = e \/ Continues(call.path, e))

\* C11 amended: is_under is true exactly when the candidate equals an entry or
\* starts with the entry stripped of its trailing separators followed by one
\* separator; fs-search.py passes over an empty entry, disk-usage-report.py
\* does not.  A sibling that only shares a name prefix is not under the entry.
C11_Amended ==
    /\ call.fn = "is_under" =>
          (call.out <=> \E e \in call.prefixes :
                            call.path = e \/ Continues(call.path, Stem(e)))
    /\ call.fn = "fs_is_under" =>
          (call.out <=> \E e \in call.prefixes \ {<<>>} :
                            call.path = e \/ Continues(call.path, Stem(e)))
    /\ (call.fn \in {"is_under", "fs_is_under"}
          /\ call.path = <<"/", "t", "x">> /\ call.prefixes = {<<"/", "t">>}) => ~call.out

\* The sibling /tx was tested against /t, and /t/s against the root entry.
C11_Witness ==
    \/ call.fn = "is_under" /\ call.path = <<"/", "t", "x">>
         /\ call.prefixes = {<<"/", "t">>} /\ ~call.out
    \/ call.fn = "fs_is_under" /\ call.path = <<"/", "t", "/", "s">>
         /\ call.prefixes = {<<"/">>} /\ call.out

\* ---- C12 ----

\* C12: for every excluded prefix P, in every state of a scan, no key of
\* dir_sizes and no path in top_files is P or lies under P, no file under P
\* has had its size added, and total_bytes is the sum of the sizes added for
\* the files outside every excluded prefix.  Excluding /t/s from a scan of /t
\* that holds a 100-byte file gives dir_sizes {/t: 100}, total_bytes 100 and
\* top_files [(100, /t/a)].
C12_ExclusionPruning ==
    /\ \A P \in exclude_set :
          /\ \A k \in Keys(dir_sizes) : ~UnderDir(k, P)
          /\ \A i \in 1..Len(top_files) : ~UnderDir(top_files[i][2], P)
          /\ \A f \in FilePaths : UnderDir(f, P) => added[f] = 0
    /\ pc # "call" =>
          total_bytes = SumOver({ f \in FilePaths : \A P \in exclude_set : ~UnderDir(f, P) },
                                [f \in FilePaths |-> added[f] * st[f].size])
    /\ ( /\ pc = "done"
         /\ roots = << PathT >>
         /\ exclude_set = { PathTS }
         /\ st[FileA] = Reg(100)
         /\ st[FileK].kind # "reg"
         /\ top_files_limit = 10 )
        => /\ dir_sizes = << <<PathT, 100>> >>
           /\ total_bytes = 100
           /\ top_files = << <<100, FileA>> >>

\* A scan of / and of /t has returned with /t/s excluded, having counted a
\* file outside it.
C12_Witness ==
    /\ pc = "done"
    /\ exclude_set = { PathTS }
    /\ Len(roots) = 2
    /\ roots[2] = PathT
    /\ <<2, PathTS>> \in visited
    /\ added[FileA] > 0
    /\ st[FileB].kind = "reg"

\* ---- C13 ----

ProperlyUnder(d, r) == d # r /\ UnderDir(d, r)

\* C13: once a walk has reached an excluded directory, no directory below it
\* is yielded by that walk or waits on its stack.
C13_HardPrune ==
    \A v \in visited :
        is_under(v[2], exclude_set) =>
            /\ \A w \in visited : w[1] = v[1] => ~ProperlyUnder(w[2], v[2])
            /\ root_idx = v[1] => \A i \in 1..Len(stack) : ~ProperlyUnder(stack[i], v[2])

\* The walk of / reached the excluded /t, which has the subdirectory /t/s,
\* and went on to the end.
C13_Witness ==
    /\ pc = "done"
    /\ exclude_set = { PathT }
    /\ roots = << <<Sep>> >>
    /\ <<1, PathT>> \in visited
    /\ <<1, <<"/", "t", "x">> >> \in visited

\* ---- C14 ----

\* The roots that are existing directories, and the others, in order.
Remaining == SelectSeq(roots, IsDir)
Missing == SelectSeq(roots, LAMBDA r : ~IsDir(r))

\* What a list of existing roots rs contributes: one <<i, f>> for every
\* regular file f in a directory that the walk of rs[i] counts.
Contributions(rs) ==
    { x \in (1..Len(rs)) \X FilePaths :
        st[x[2]].kind = "reg" /\ Walked(rs[x[1]], Dirname(x[2])) }

BucketOf(rs, x) == dir_bucket(rs[x[1]], Dirname(x[2]), max_depth)

SizeSum(X) == SumOver(X, [x \in X |-> st[x[2]].size])

\* C14: a root that is no existing directory gives a warning and nothing
\* else: when scan_roots returns, the warnings are the missing roots in
\* order, every other root has been walked, and dir_sizes, total_bytes and
\* the number and origin of the top_files records are what the remaining
\* roots alone contribute (nothing at all when no root exists).
C14_MissingRoot ==
    pc = "done" =>
        LET X == Contributions(Remaining) IN
        /\ warnings = Missing
        /\ \A i \in 1..Len(roots) : IsDir(roots[i]) => <<i, roots[i]>> \in visited
        /\ \A v \in visited : IsDir(roots[v[1]])
        /\ Keys(dir_sizes) = { BucketOf(Remaining, x) : x \in X }
        /\ \A k \in Keys(dir_sizes) :
              DictGet(dir_sizes, k, 0) = SizeSum({ x \in X : BucketOf(Remaining, x) = k })
        /\ total_bytes = SizeSum(X)
        /\ Len(top_files) = IF top_files_limit <= 0 THEN 0
                            ELSE Min(top_files_limit,
                                     Cardinality({ x \in X : st[x[2]].size > 0 }))
        /\ \A i \in 1..Len(top_files) :
              \E x \in X : top_files[i] = <<st[x[2]].size, x[2]>>
        /\ Remaining = <<>> => dir_sizes = <<>> /\ total_bytes = 0 /\ top_files = <<>>

\* The missing root /n came first and the scan went on to count /t/s.
C14_Witness ==
    /\ pc = "done"
    /\ roots = << <<"/", "n">>, PathTS >>
    /\ warnings = << <<"/", "n">> >>
    /\ total_bytes = 200

\* Only missing roots were given: the result is empty.
C14_WitnessNoRoot ==
    /\ pc = "done"
    /\ roots = << <<"/", "n">> >>
    /\ dir_sizes = <<>>
    /\ Len(warnings) = 1

\* ---- C15 ----

\* The entries whose lstat fails, and the file system without them.
Failing == { f \in FilePaths : st[f].kind = "err" }
Present == FilePaths \ Failing

\* What the roots rs contribute in a file system that holds only the entries
\* of files.
ContributionsIn(rs, files) ==
    { x \in (1..Len(rs)) \X files :
        st[x[2]].kind = "reg" /\ Walked(rs[x[1]], Dirname(x[2])) }

\* C15: an entry whose lstat fails is skipped and nothing else is: it is
\* never added, placed in a bucket or recorded in top_files, and when
\* scan_roots returns every other regular file has been counted as often as
\* its directory was walked, and dir_sizes and total_bytes are what the file
\* system without the failing entries gives.
C15_StatFailure ==
    /\ \A f \in Failing :
          /\ added[f] = 0
          /\ \A x \in placed : x[1] # f
          /\ \A i \in 1..Len(top_files) : top_files[i][2] # f
    /\ pc = "done" =>
          LET X == ContributionsIn(Remaining, Present) IN
          /\ \A g \in Present : st[g].kind = "reg" => added[g] = TimesWalked(Dirname(g))
          /\ Keys(dir_sizes) = { BucketOf(Remaining, x) : x \in X }
          /\ \A k \in Keys(dir_sizes) :
                DictGet(dir_sizes, k, 0) = SizeSum({ x \in X : BucketOf(Remaining, x) = k })
          /\ total_bytes = SumOver(Present, [g \in Present |->
                                IF st[g].kind = "reg" THEN added[g] * st[g].size ELSE 0])
          /\ \A i \in 1..Len(top_files) : top_files[i][2] \in Present

\* lstat of /t/k failed in a walk of /t that counted its sibling /t/a and the
\* file below, and the scan returned.
C15_Witness ==
    /\ pc = "done"
    /\ st[FileK].kind = "err"
    /\ \E i \in 1..Len(roots) : <<i, PathT>> \in visited
    /\ added[FileA] > 0
    /\ added[FileB] > 0

\* ---- C16 ----

NonRegular == { f \in FilePaths : st[f].kind \in {"lnk", "fifo"} }

\* C16: only regular files contribute: a step that takes an entry that is a
\* symbolic link or a FIFO off the list of the directory leaves dir_sizes,
\* total_bytes and top_files as they are, and no such entry is ever added,
\* placed in a bucket or recorded in top_files.
C16_OnlyRegular ==
    /\ [](\A f \in NonRegular :
            /\ added[f] = 0
            /\ \A x \in placed : x[1] # f
            /\ \A i \in 1..Len(top_files) : top_files[i][2] # f)
    /\ [][ (\E name \in filenames \ filenames' : Join2(dirpath_real, name) \in NonRegular)
             => UNCHANGED << dir_sizes, total_bytes, top_files >> ]_vars

\* /t/k is a symbolic link, its directory has been walked and the regular
\* file next to it counted.
C16_Witness ==
    /\ pc = "done"
    /\ st[FileK].kind = "lnk"
    /\ \E i \in 1..Len(roots) : <<i, PathT>> \in visited
    /\ added[FileA] > 0
    /\ st[FileA].size > 0

\* ---- C17 ----

\* A dict as a mapping: its items, whatever order they were inserted in.
Items(d) == { d[i] : i \in 1..Len(d) }

SecondScan == call.fn = "scan_roots"

\* C17: a second scan of the unchanged tree, with the roots in any order and
\* the directories and files listed in any order, returns the same mapping
\* dir_sizes and the same total_bytes as the first.
C17_OrderIndependence ==
    (pc = "done" /\ SecondScan) =>
        /\ Items(dir_sizes) = Items(call.dir_sizes)
        /\ total_bytes = call.total_bytes
        /\ NoDup([i \in 1..Len(dir_sizes) |-> dir_sizes[i][1]])

\* The second scan took another way through the tree than the first: its
\* buckets were created in another order.
C17_Witness ==
    /\ pc = "done"
    /\ SecondScan
    /\ Len(dir_sizes) >= 2
    /\ dir_sizes # call.dir_sizes
    /\ total_bytes >= 300

\* ---- C18 ----

\* C18 as stated: a second scan of the unchanged tree with the same
\* arguments holds the same set of (size, path) records in top_files as the
\* first, whatever the order of the listings (looked at for the depths that
\* are not negative).
C18_Original ==
    (pc = "done" /\ SecondScan /\ arg_roots = call.roots /\ max_depth >= 0) =>
        Items(top_files) = Items(call.top_files)

\* What holds of top_files in both scans: the same sizes, largest first.
C18_SameSizes ==
    (pc = "done" /\ SecondScan) =>
        LET sizes(h) == [i \in 1..Len(h) |-> SortedDesc(h)[i][1]]
        IN sizes(top_files) = sizes(call.top_files)

\* Two scans of / with top_files_limit 1 and two files of 200 bytes: one kept
\* /t/s/b, the other /tx/e.
C18_TieWitness ==
    /\ pc = "done"
    /\ SecondScan
    /\ arg_roots = << <<Sep>> >>
    /\ call.roots = arg_roots
    /\ top_files_limit = 1
    /\ call.top_files = << <<200, FileB>> >>
    /\ top_files = << <<200, <<"/", "t", "x", "/", "e">> >> >>

\* ---- C19 ----

\* C19 as stated: with a negative max_depth nothing is walked and no bucket
\* is computed.
C19_Original ==
    max_depth < 0 =>
        /\ visited = {}
        /\ bucket = NoPath
        /\ placed = {}

\* What main of disk-usage-report.py does with --max-depth -1: the scan runs
\* to its end and files are placed in buckets computed with the negative depth.
C19_NegativeDepthScanned ==
    /\ max_depth < 0
    /\ pc = "reported"
    /\ placed # {}

\* space-scout.py does reject it: with a negative --depth main returns 1
\* before any root is measured.
C19_ScoutRejects ==
    (call.fn = "space-scout" /\ call.depth # <<>> /\ call.depth[1] < 0 /\ call.at # "args") =>
        /\ call.at = "exit"
        /\ call.code = 1
        /\ call.idx = 0
        /\ call.per_root = <<>>
        /\ printed = <<>>

\* ---- C20 ----

\* The command line has neither -r/--recursive nor -d/--depth.
PlainInvocation == call.fn = "space-scout" /\ call.depth = <<>> /\ ~call.recursive

\* C20 as stated: without -r and -d every root is measured with effective
\* depth 1, by either engine.
C20_Original ==
    PlainInvocation => \A i \in 1..Len(call.eff_depth) : call.eff_depth[i] = 1

\* What the code does: without -r and -d depth is set to 1, but every root is
\* measured with eff_depth 0, and the rows of a root hold the root alone.
C20_DefaultDepthZero ==
    PlainInvocation =>
        /\ call.at # "args" => call.depth_used = 1
        /\ \A i \in 1..Len(call.eff_depth) : call.eff_depth[i] = 0
        /\ \A i \in 1..Len(call.per_root) :
              \A j \in 1..Len(call.per_root[i][2]) :
                  call.per_root[i][2][j][2] = call.per_root[i][1]

\* space-scout -p /t/ has measured /t, which has the subdirectory /t/s, and
\* reported the single row of /t.
C20_DepthZeroWitness ==
    /\ PlainInvocation
    /\ call.at = "exit"
    /\ call.code = 0
    /\ call.roots = << PathT >>
    /\ Len(call.per_root[1][2]) = 1

\* ---- C21 ----

\* The rule of the module docstring: -s/--system is given, or a path of the
\* -p lists is /home or lies outside $HOME.
RootRequired ==
    \/ call.system
    \/ \E i \in 1..Len(parse_path_list(call.path)) :
          LET q == parse_path_list(call.path)[i] IN
          \/ q = <<"/", "h", "o", "m", "e">>
          \/ ~UnderDir(q, Realpath(Home))

NothingScanned == call.idx = 0 /\ call.per_root = <<>> /\ call.eff_depth = <<>> /\ printed = <<>>

NegativeDepth == call.depth # <<>> /\ call.depth[1] < 0

\* C21 as stated: whenever root is required and the process is not root,
\* main returns 2 and no root is scanned.
C21_Original ==
    (call.fn = "space-scout" /\ call.at # "args" /\ RootRequired /\ ~call.euid_root) =>
        call.code = 2 /\ NothingScanned

\* C21 amended: a negative --depth is refused first, with exit code 1.  For
\* every other command line main returns 2 exactly when root is required (-s
\* is given, or an explicit path is /home or lies outside $HOME) and the
\* process is not root; in both cases no root is scanned by either engine.
C21_Amended ==
    (call.fn = "space-scout" /\ call.at # "args") =>
        /\ NegativeDepth => call.code = 1 /\ NothingScanned
        /\ ~NegativeDepth => (call.code = 2 <=> (RootRequired /\ ~call.euid_root))
        /\ call.code = 2 => call.at = "exit" /\ NothingScanned

\* Run without privileges, -p ~/x was measured (it lies inside $HOME) ...
C21_WitnessAllowed ==
    /\ call.fn = "space-scout"
    /\ ~call.euid_root
    /\ call.path = << <<"~", "/", "x">> >>
    /\ call.at = "exit"
    /\ call.code \in {0, 3}
    /\ call.idx + Len(warnings) > 0 \/ call.code = 3

\* ... and -p /t/ was refused with exit code 2.
C21_Witness ==
    /\ call.fn = "space-scout"
    /\ ~call.euid_root
    /\ ~call.system
    /\ call.path = << <<"/", "t", "/">> >>
    /\ call.at = "exit"
    /\ call.code = 2

\* ---- C22 ----

\* The entries that are no symbolic links and can be read.
Measurable == { f \in FilePaths : st[f].kind \notin {"lnk", "err"} }

SizeOfFiles(F) == SumOver(F, [f \in F |-> st[f].size])

PythonRows == call.fn = "space-scout" /\ call.engine = "python"

\* C22 as stated: every row of the Python engine carries the sizes of all
\* the files that are no symbolic links anywhere in the subtree of its
\* directory, those deeper than depth included, and its directory is within
\* depth of the root (looked at for the runs with an explicit -d/--depth).
C22_Original ==
    (PythonRows /\ call.depth # <<>>) =>
        \A i \in 1..Len(call.per_root) :
            \A j \in 1..Len(call.per_root[i][2]) :
                LET row == call.per_root[i][2][j] IN
                /\ Level(row[2], call.per_root[i][1]) <= call.eff_depth[i]
                /\ row[1] = SizeOfFiles({ f \in Measurable : UnderDir(f, row[2]) })

\* What the rows of the Python engine carry: the files in the directories of
\* the subtree that are themselves within depth of the root.
C22_WithinDepth ==
    PythonRows =>
        \A i \in 1..Len(call.per_root) :
            \A j \in 1..Len(call.per_root[i][2]) :
                LET row == call.per_root[i][2][j]
                    root == call.per_root[i][1]
                IN
                /\ Level(row[2], root) <= call.eff_depth[i]
                /\ row[1] = SizeOfFiles({ f \in Measurable :
                                 /\ root \in Dirs
                                 /\ UnderDir(f, row[2])
                                 /\ Level(Dirname(f), root) <= call.eff_depth[i] })

\* walk_python(/t, 0) has left out the 200 bytes of /t/s/b.
C22_ShallowWitness ==
    /\ PythonRows
    /\ call.at = "exit"
    /\ call.roots = << PathT >>
    /\ call.depth = << 0 >>
    /\ call.eff_depth = << 0 >>
    /\ st[FileA].size = 100
    /\ st[FileK].kind = "lnk"
    /\ call.per_root = << <<PathT, << <<100, PathT>> >> >> >>

(***************************************************************************)
(* zshrc-merge.py: lines of text.  A line is a sequence of one-character   *)
(* strings that keeps its line end, as str.splitlines(keepends=True)       *)
(* returns it; a text is a sequence of lines.  None is the empty sequence, *)
(* which is no line and no _fingerprint.                                    *)
(***************************************************************************)
Ws == {" ", "\n"}

NoFp == <<>>

NoLine == <<>>

RECURSIVE LStripWs(_)
LStripWs(s) == IF s # <<>> /\ s[1] \in Ws THEN LStripWs(Tail(s)) ELSE s

RECURSIVE RStripWs(_)
RStripWs(s) ==
    IF s # <<>> /\ s[Len(s)] \in Ws THEN RStripWs(SubSeq(s, 1, Len(s) - 1))
    ELSE s

\* str.strip()
StripWs(s) == RStripWs(LStripWs(s))

\* str.split(): the words between runs of whitespace
RECURSIVE SplitWs(_, _, _)
SplitWs(s, cur, out) ==
    LET flushed == IF cur = <<>> THEN out ELSE Append(out, cur)
    IN IF s = <<>> THEN flushed
       ELSE IF s[1] \in Ws THEN SplitWs(Tail(s), <<>>, flushed)
       ELSE SplitWs(Tail(s), Append(cur, s[1]), out)

\* " ".join(parts)
RECURSIVE JoinSp(_)
JoinSp(parts) ==
    IF parts = <<>> THEN <<>>
    ELSE IF Len(parts) = 1 THEN parts[1]
    ELSE parts[1] \o <<" ">> \o JoinSp(Tail(parts))

\* str.splitlines(keepends=True) of a text whose only line end is "\n"
RECURSIVE SplitLines(_, _, _)
SplitLines(text, cur, out) ==
    IF text = <<>> THEN (IF cur = <<>> THEN out ELSE Append(out, cur))
    ELSE IF text[1] = "\n" THEN SplitLines(Tail(text), <<>>, Append(out, Append(cur, "\n")))
    ELSE SplitLines(Tail(text), Append(cur, text[1]), out)

\* _read_text of a file that holds the text
_read_text(text) == SplitLines(text, <<>>, <<>>)

\* _write_text: the text the file holds after writelines(lines)
_write_text(lines) == Flatten(lines)

EndsWithNewline(line) == line # <<>> /\ line[Len(line)] = "\n"

_is_pure_comment(line) ==
    LET s == LStripWs(line) IN s # <<>> /\ s[1] = "#"

_is_blank(line) == StripWs(line) = <<>>

_normalize_significant(line) == JoinSp(SplitWs(StripWs(line), <<>>, <<>>))

\* A variant that compares lines as written, for comparison.
_fingerprint_verbatim(line) ==
    IF _is_blank(line) \/ _is_pure_comment(line) THEN NoFp ELSE RStripWs(line)

_fingerprint(line) ==
    IF _is_blank(line) \/ _is_pure_comment(line) THEN NoFp
    ELSE _normalize_significant(line)

FpSet(lines) == {_fingerprint(lines[i]) : i \in 1..Len(lines)} \ {NoFp}

\* _index_fps: only the keys of the dict are ever consulted
_index_fps(lines) == FpSet(lines)

\* A variant that counts the fingerprints of either text, for comparison.
_overlap_stats_union(src_lines, tgt_lines) ==
    <<Cardinality(FpSet(src_lines)), Cardinality(FpSet(tgt_lines)),
      Cardinality(FpSet(src_lines) \cup FpSet(tgt_lines))>>

_overlap_stats(src_lines, tgt_lines) ==
    <<Cardinality(FpSet(src_lines)), Cardinality(FpSet(tgt_lines)),
      Cardinality(FpSet(src_lines) \cap FpSet(tgt_lines))>>

(***************************************************************************)
(* _discover_blocks: one pass over the source.  Items are <<index, line>>  *)
(* with the 0-based index of the source line.                              *)
(***************************************************************************)
Block(items, before, after) ==
    [src_start |-> items[1][1], src_end |-> items[Len(items)][1],
     lines |-> [k \in 1..Len(items) |-> items[k][2]],
     before_anchor_fp |-> before, after_anchor_fp |-> after]

DiscoverStart ==
    [blocks |-> <<>>, last_present_fp |-> NoFp, prebuffer |-> <<>>,
     in_block |-> FALSE, block_items |-> <<>>,
     before_anchor_fp |-> NoFp, after_anchor_fp |-> NoFp]

flush_block(d) ==
    IF ~d.in_block THEN d
    ELSE IF d.block_items = <<>> THEN [d EXCEPT !.in_block = FALSE]
    ELSE [d EXCEPT !.blocks = Append(@, Block(d.block_items,
                                 d.before_anchor_fp, d.after_anchor_fp)),
                   !.in_block = FALSE, !.block_items = <<>>,
                   !.before_anchor_fp = NoFp, !.after_anchor_fp = NoFp]

DiscoverStep(d, i, line, tgt_fp_index) ==
    LET fp == _fingerprint(line)
        present == fp \in tgt_fp_index
    IN IF fp = NoFp
       THEN IF d.in_block
            THEN [d EXCEPT !.block_items = Append(@, <<i, line>>)]
            ELSE [d EXCEPT !.prebuffer = Append(@, <<i, line>>)]
       ELSE IF d.in_block
       THEN IF present
            THEN [flush_block([d EXCEPT !.after_anchor_fp = fp])
                    EXCEPT !.prebuffer = <<>>, !.last_present_fp = fp]
            ELSE [d EXCEPT !.block_items = Append(@, <<i, line>>)]
       ELSE IF present
            THEN [d EXCEPT !.prebuffer = <<>>, !.last_present_fp = fp]
            ELSE [d EXCEPT !.in_block = TRUE,
                           !.before_anchor_fp = d.last_present_fp,
                           !.block_items = d.prebuffer \o << <<i, line>> >>,
                           !.prebuffer = <<>>]

RECURSIVE DiscoverLoop(_, _, _, _)
DiscoverLoop(d, i, src_lines, tgt_fp_index) ==
    IF i >= Len(src_lines) THEN d
    ELSE DiscoverLoop(DiscoverStep(d, i, src_lines[i + 1], tgt_fp_index),
                      i + 1, src_lines, tgt_fp_index)

_discover_blocks(src_lines, tgt_fp_index) ==
    flush_block(DiscoverLoop(DiscoverStart, 0, src_lines, tgt_fp_index)).blocks

(***************************************************************************)
(* Insertion.  Indices are Python's: ins lines of the text precede the     *)
(* insertion point.                                                        *)
(***************************************************************************)
_find_insertion_index(tgt_lines, before_fp, after_fp) ==
    LET hitsB == {i \in 1..Len(tgt_lines) : _fingerprint(tgt_lines[i]) = before_fp}
        hitsA == {i \in 1..Len(tgt_lines) : _fingerprint(tgt_lines[i]) = after_fp}
    IN IF before_fp # NoFp /\ hitsB # {}
       THEN CHOOSE i \in hitsB : \A j \in hitsB : j <= i
       ELSE IF after_fp # NoFp /\ hitsA # {}
       THEN (CHOOSE i \in hitsA : \A j \in hitsA : i <= j) - 1
       ELSE Len(tgt_lines)

RECURSIVE DropLeadingBlanks(_)
DropLeadingBlanks(out) ==
    IF out # <<>> /\ _is_blank(out[1]) THEN DropLeadingBlanks(Tail(out)) ELSE out

RECURSIVE DropTrailingBlanks(_)
DropTrailingBlanks(out) ==
    IF out # <<>> /\ _is_blank(out[Len(out)])
    THEN DropTrailingBlanks(SubSeq(out, 1, Len(out) - 1))
    ELSE out

_trim_boundary_blanks(block_lines, left_neighbor, right_neighbor) ==
    LET l == IF left_neighbor # NoLine /\ _is_blank(left_neighbor)
             THEN DropLeadingBlanks(block_lines) ELSE block_lines
    IN IF right_neighbor # NoLine /\ _is_blank(right_neighbor)
       THEN DropTrailingBlanks(l) ELSE l

\* A variant of the slice assignment that overwrites the line at ins.
SliceReplace(out, ins, payload) ==
    SubSeq(out, 1, ins) \o payload \o SubSeq(out, ins + 2, Len(out))

\* out[ins:ins] = payload
SliceInsert(out, ins, payload) ==
    SubSeq(out, 1, ins) \o payload \o SubSeq(out, ins + 1, Len(out))

\* lines 314-315
EndNewline(out) ==
    IF out # <<>> /\ ~EndsWithNewline(out[Len(out)])
    THEN [out EXCEPT ![Len(out)] = @ \o <<"\n">>]
    ELSE out

\* one turn of the loop of _apply_blocks
ApplyBlock(out, b) ==
    LET ins == _find_insertion_index(out, b.before_anchor_fp, b.after_anchor_fp)
        left_neighbor == IF ins - 1 >= 0 THEN out[ins] ELSE NoLine
        right_neighbor == IF ins < Len(out) THEN out[ins + 1] ELSE NoLine
        payload == _trim_boundary_blanks(b.lines, left_neighbor, right_neighbor)
    IN IF payload = <<>> THEN out
       ELSE EndNewline(SliceInsert(out, ins, payload))

RECURSIVE ApplyFrom(_, _)
ApplyFrom(out, blocks) ==
    IF blocks = <<>> THEN out
    ELSE ApplyFrom(ApplyBlock(out, Head(blocks)), Tail(blocks))

_apply_blocks(tgt_lines, blocks) == ApplyFrom(tgt_lines, blocks)

(***************************************************************************)
(* zshrc-merge.py: main.  The target file on disk is call.disk (its lines) *)
(* and call.tgt_exists; call.writes counts the writes to the target path   *)
(* and call.backups the backup copies made.                                *)
(***************************************************************************)
LineA == <<"a", "\n">>

LineASp == <<" ", "a", "\n">>

LineB == <<"b", "\n">>

LineBEnd == <<"b">>

LineAB == <<"a", " ", "b", "\n">>

LineAB2 == <<"a", " ", " ", "b", "\n">>

LineC == <<"#", "c", "\n">>

LineE == <<"\n">>

SrcTexts ==
    { <<LineA, LineC, LineB>>, <<LineB, LineA, LineAB2>>, <<LineAB2, LineE, LineBEnd>>,
      <<LineC, LineE>>, <<LineA>> }

TgtTexts ==
    { <<>>, <<LineE>>, <<LineASp>>, <<LineC>>, <<LineAB, LineBEnd>>,
      <<LineA, LineE, LineB>> }

\* the target path: no file, or a file with one of the texts
TgtFiles ==
    {[exists |-> FALSE, lines |-> <<>>]} \cup
    {[exists |-> TRUE, lines |-> t] : t \in TgtTexts}

\* what the user types at a prompt
Answers ==
    { <<>>, <<"y">>, <<" ", "Y">>, <<"n">>, <<"a">>, <<"q">>, <<"?">>, <<"x">> }

\* str.lower() on the letters typed
Lower(c) == IF c = "Y" THEN "y" ELSE c

\* _prompt_choice for one line of input: the choice, or "again" when the
\* loop asks once more
_prompt_choice(typed, default) ==
    LET s == [i \in 1..Len(StripWs(typed)) |-> Lower(StripWs(typed)[i])]
    IN IF s = <<>> THEN default
       ELSE IF Len(s) = 1 /\ s[1] \in {"y", "n", "a", "q", "?"} THEN s[1]
       ELSE "again"

\* A variant that writes whatever the options are, for comparison.
DryRunNever(args) == FALSE

\* lines 448 and 536: without --apply nothing is written
DryRun(args) == ~args.apply

InitMerge ==
    /\ Idle
    /\ top_files_limit = 0
    /\ call \in { [fn |-> "zshrc-merge", at |-> "args", help |-> h, paths |-> pg,
                    src_exists |-> se, tgt_exists |-> t.exists, interactive |-> i,
                    apply |-> ap, yes |-> y, allow_no_overlap |-> an, backup |-> b,
                    src |-> s, disk |-> t.lines, tgt_lines |-> <<>>, blocks |-> <<>>,
                    stats |-> <<0, 0, 0>>, confirm |-> "", k |-> 0, chosen |-> <<>>,
                    new_lines |-> <<>>, shown |-> 0, writes |-> 0, backups |-> 0, code |-> -1] :
                    h \in BOOLEAN, pg \in BOOLEAN, se \in BOOLEAN,
                    i \in BOOLEAN, ap \in BOOLEAN, y \in BOOLEAN, an \in BOOLEAN,
                    b \in BOOLEAN, s \in SrcTexts,
                    t \in TgtFiles }

MergeFrame ==
    UNCHANGED << params, pc, walk, dir_sizes, top_files, total_bytes, output, added,
                 placed, offers, dropped, visited >>

MergeExit(c, code) == [c EXCEPT !.at = "done", !.code = code]

\* lines 485-519, once the overlap check is passed
AfterOverlap(c) ==
    IF c.blocks = <<>> THEN MergeExit(c, 0)
    ELSE IF c.yes /\ ~c.interactive THEN [c EXCEPT !.chosen = c.blocks, !.at = "merge"]
    ELSE IF c.interactive THEN [c EXCEPT !.k = 1, !.at = "choose"]
    ELSE [c EXCEPT !.chosen = c.blocks, !.at = "merge"]

\* main, lines 425-483 up to the first prompt
MergeStart ==
    /\ call.fn = "zshrc-merge" /\ call.at = "args"
    /\ MergeFrame
    /\ IF call.help THEN call' = MergeExit(call, 0)
       ELSE IF ~call.paths THEN call' = MergeExit(call, 2)
       ELSE IF ~call.src_exists THEN call' = MergeExit(call, 2)
       ELSE LET tgt_lines == IF call.tgt_exists THEN call.disk ELSE <<>>
                src_lines == call.src
                tgt_is_empty == \A i \in 1..Len(tgt_lines) : _is_blank(tgt_lines[i])
                blocks == _discover_blocks(src_lines, _index_fps(tgt_lines))
                stats == _overlap_stats(src_lines, tgt_lines)
                read == [call EXCEPT !.tgt_lines = tgt_lines, !.blocks = blocks,
                                     !.stats = stats]
            IN IF tgt_is_empty
               THEN IF DryRun(call) THEN call' = MergeExit([call EXCEPT !.tgt_lines = tgt_lines], 0)
                    ELSE call' = MergeExit([call EXCEPT !.tgt_lines = tgt_lines,
                                               !.disk = src_lines, !.tgt_exists = TRUE,
                                               !.writes = @ + 1], 0)
               ELSE IF stats[3] = 0 /\ ~call.allow_no_overlap
               THEN IF call.interactive THEN call' = [read EXCEPT !.at = "overlap"]
                    ELSE call' = MergeExit(read, 3)
               ELSE call' = AfterOverlap(read)

\* main, lines 473-476: the answer to "Proceed anyway?"
MergeConfirm ==
    /\ call.fn = "zshrc-merge" /\ call.at = "overlap"
    /\ MergeFrame
    /\ \E typed \in Answers :
          LET c == _prompt_choice(typed, "n")
          IN /\ c # "again"
             /\ IF c # "y" THEN call' = MergeExit([call EXCEPT !.confirm = c], 3)
                ELSE call' = AfterOverlap([call EXCEPT !.confirm = c])

\* the rest of the loop once the block k is settled with choice c
Chosen(c0, c) ==
    LET b == c0.blocks[c0.k]
        n == Len(c0.blocks)
        next(cc) == IF cc.k = n THEN [cc EXCEPT !.at = "merge"]
                    ELSE [cc EXCEPT !.k = @ + 1, !.at = "choose"]
    IN IF c = "y" THEN next([c0 EXCEPT !.chosen = Append(@, b)])
       ELSE IF c = "a"
       THEN [c0 EXCEPT !.chosen = @ \o SubSeq(c0.blocks, c0.k, n), !.k = n,
                       !.at = "merge"]
       ELSE IF c = "q" THEN MergeExit(c0, 4)
       ELSE next(c0)

\* main, lines 496-517: the answer for block k
MergeChoose ==
    /\ call.fn = "zshrc-merge" /\ call.at = "choose"
    /\ MergeFrame
    /\ \E typed \in Answers :
          LET c == _prompt_choice(typed, "n")
          IN /\ c # "again"
             /\ IF c = "?" THEN call' = [call EXCEPT !.at = "show", !.shown = @ + 1]
                ELSE call' = Chosen(call, c)

\* main, lines 503-517: the block was shown, the question is asked again
MergeShown ==
    /\ call.fn = "zshrc-merge" /\ call.at = "show"
    /\ MergeFrame
    /\ \E typed \in Answers :
          LET c == _prompt_choice(typed, "n")
          IN /\ c # "again"
             /\ call' = Chosen(call, c)

\* main, lines 521-553
MergeApply ==
    /\ call.fn = "zshrc-merge" /\ call.at = "merge"
    /\ MergeFrame
    /\ LET new_lines == _apply_blocks(call.tgt_lines, call.chosen)
           c1 == [call EXCEPT !.new_lines = new_lines]
       IN IF new_lines = call.tgt_lines THEN call' = MergeExit(c1, 0)
          ELSE IF DryRun(call) THEN call' = MergeExit(c1, 0)
          ELSE call' = MergeExit([c1 EXCEPT !.backups = IF call.backup THEN @ + 1 ELSE @,
                                            !.disk = _read_text(_write_text(new_lines)), !.writes = @ + 1], 0)

NextMerge ==
    \/ MergeStart
    \/ MergeConfirm
    \/ MergeChoose
    \/ MergeShown
    \/ MergeApply

SpecMerge == InitMerge /\ [][NextMerge]_vars

(***************************************************************************)
(* _apply_blocks on its own: any target text, any blocks, one block at a   *)
(* time.                                                                   *)
(***************************************************************************)
\* Longest target text, in lines.
MaxLines == 2

\* Longest list of blocks applied.
MaxBlocks == 2

FullLines == {LineA, LineB, LineC, LineE}

\* texts as _read_text returns them: only the last line may lack its line end
ApplyTargets ==
    SeqsUpTo(FullLines, MaxLines) \cup
    {Append(t, LineBEnd) : t \in SeqsUpTo(FullLines, MaxLines - 1)}

BlockTexts ==
    { <<LineB>>, <<LineE, LineB>>, <<LineA, LineE>>, <<LineE>>, <<LineC, LineBEnd>> }

AnchorFps == {NoFp, <<"a">>, <<"b">>}

ApplyBlocks ==
    { [src_start |-> 0, src_end |-> Len(l) - 1, lines |-> l,
       before_anchor_fp |-> bf, after_anchor_fp |-> af] :
       l \in BlockTexts, bf \in AnchorFps, af \in AnchorFps }

InitApply ==
    /\ Idle
    /\ top_files_limit = 0
    /\ call \in { [fn |-> "_apply_blocks", tgt_lines |-> t, out |-> t, n |-> 0,
                    last |-> <<>>] : t \in ApplyTargets }

\* one more block of the list
ApplyOne ==
    /\ call.fn = "_apply_blocks"
    /\ call.n < MaxBlocks
    /\ \E b \in ApplyBlocks :
          call' = [call EXCEPT !.out = ApplyBlock(call.out, b), !.n = @ + 1,
                               !.last = b.lines]
    /\ MergeFrame

NextApply == ApplyOne

SpecApply == InitApply /\ [][NextApply]_vars

(***************************************************************************)
(* Properties of zshrc-merge.                                              *)
(***************************************************************************)

\* C23: zshrc-merge is a dry run by default: whatever the options and the
\* answers typed at its prompts, a step of main changes the target file (merges
\* into it, or populates it from the source) only when --apply was given.
C23_DryRunByDefault ==
    [][call.fn = "zshrc-merge" =>
         ((\/ call'.disk # call.disk
           \/ call'.tgt_exists # call.tgt_exists
           \/ call'.writes # call.writes) => call.apply)]_vars

\* A dry run in which the user chose blocks and a change was proposed.
C23_Witness ==
    /\ call.fn = "zshrc-merge" /\ call.at = "done" /\ call.code = 0
    /\ ~call.apply /\ call.interactive
    /\ call.chosen # <<>> /\ call.new_lines # call.tgt_lines
    /\ call.writes = 0 /\ call.disk = call.tgt_lines

\* A run with --apply that wrote the merged text.
C23_WitnessApplied ==
    /\ call.fn = "zshrc-merge" /\ call.at = "done"
    /\ call.apply /\ call.writes = 1 /\ call.disk # call.tgt_lines

\* The source and the target that main read share no fingerprint.
NoSharedFingerprint ==
    \A i \in 1..Len(call.src), j \in 1..Len(call.tgt_lines) :
        \/ _fingerprint(call.src[i]) = NoFp
        \/ _fingerprint(call.src[i]) # _fingerprint(call.tgt_lines[j])

\* The target that main read has a line that is not blank.
TargetNotEmpty == \E j \in 1..Len(call.tgt_lines) : ~_is_blank(call.tgt_lines[j])

\* main has read both files.
FilesRead ==
    /\ call.fn = "zshrc-merge" /\ call.at # "args"
    /\ ~call.help /\ call.paths /\ call.src_exists

\* The user was asked "Proceed anyway?" and answered yes.
AnsweredYes == call.interactive /\ call.confirm = "y"

\* C24: when the source and the target share no significant-line fingerprint
\* and the target is not empty, the run ends with exit code 3 and the target
\* unwritten, unless --allow-no-overlap is set or --interactive is used and the
\* user answers yes; in these two cases the run does not end with code 3.
C24_NoOverlapAbort ==
    (FilesRead /\ NoSharedFingerprint /\ TargetNotEmpty) =>
        IF call.allow_no_overlap \/ AnsweredYes
        THEN call.code # 3
        ELSE \/ call.interactive /\ call.at = "overlap" /\ call.writes = 0
             \/ /\ call.at = "done" /\ call.code = 3
                /\ call.writes = 0 /\ call.disk = call.tgt_lines

\* An interactive run with --apply where the user declined.
C24_Witness ==
    /\ FilesRead /\ NoSharedFingerprint /\ TargetNotEmpty
    /\ call.interactive /\ call.apply /\ ~call.allow_no_overlap
    /\ call.confirm = "n" /\ call.at = "done" /\ call.code = 3

\* An interactive run where the user said yes and the merge was written.
C24_WitnessYes ==
    /\ FilesRead /\ NoSharedFingerprint /\ TargetNotEmpty
    /\ AnsweredYes /\ ~call.allow_no_overlap
    /\ call.at = "done" /\ call.code = 0 /\ call.writes = 1

\* orig is a subsequence of out, its last line possibly with a line end added
RECURSIVE Embeds(_, _)
Embeds(orig, out) ==
    IF orig = <<>> THEN TRUE
    ELSE IF out = <<>> THEN FALSE
    ELSE IF \/ out[1] = orig[1]
            \/ /\ Len(orig) = 1 /\ ~EndsWithNewline(orig[1])
               /\ out[1] = orig[1] \o <<"\n">>
         THEN Embeds(Tail(orig), Tail(out))
         ELSE Embeds(orig, Tail(out))

C29_ItemsKept ==
    call.fn = "_apply_blocks" => Embeds(call.tgt_lines, call.out)

\* A block was appended to a target whose last line has no line end.
C29_GluedWitness ==
    /\ call.fn = "_apply_blocks" /\ call.n = 1
    /\ call.tgt_lines = <<LineA, LineBEnd>>
    /\ call.out = <<LineA, LineBEnd, LineB>>
    /\ _read_text(_write_text(call.out)) = <<LineA, <<"b", "b", "\n">> >>

(***************************************************************************)
(* dd_enhanced.py: the argument parser.  The namespace of argparse holds   *)
(* an attribute only once something has set it: call.has_last_ctx and      *)
(* call.has_pairs tell whether _last_ctx and _pairs exist.  Reading an     *)
(* attribute that does not exist raises AttributeError, which ends the     *)
(* program with a traceback.                                               *)
(***************************************************************************)
\* Longest command line, in options.
MaxArgs == 3

\* one option with its value, or one positional word
DdOptions ==
    { <<"-i", "in">>, <<"-t", "o1">>, <<"-t", "o2">>, <<"-b", "4M">>, <<"pos", "p">> }

InitDd ==
    /\ Idle
    /\ top_files_limit = 0
    /\ call \in { [fn |-> "dd_enhanced", argv |-> a, rest |-> a, at |-> "parse",
                    has_last_ctx |-> FALSE, last_ctx |-> "", has_pairs |-> FALSE,
                    pairs |-> <<>>, positional |-> <<>>, euid_root |-> r,
                    ran |-> <<>>, outcome |-> "running"] :
                    a \in SeqsUpTo(DdOptions, MaxArgs), r \in BOOLEAN }

DdRaise(c, what) == [c EXCEPT !.at = "done", !.outcome = what]

DdNextArg(c) == [c EXCEPT !.rest = Tail(@)]

\* TargetAction, line 148
TargetContext(c) == [c EXCEPT !.last_ctx = "target"]

\* ContextAction.__call__ for -b, lines 84-109: the context is set
DdContext ==
    /\ call.fn = "dd_enhanced" /\ call.at = "parse"
    /\ call.rest # <<>> /\ Head(call.rest)[1] = "-b"
    /\ call' = DdNextArg([call EXCEPT !.has_last_ctx = TRUE, !.last_ctx = "bs"])
    /\ MergeFrame

\* a positional word is collected
DdPositional ==
    /\ call.fn = "dd_enhanced" /\ call.at = "parse"
    /\ call.rest # <<>> /\ Head(call.rest)[1] = "pos"
    /\ call' = DdNextArg([call EXCEPT !.positional = Append(@, Head(call.rest)[2])])
    /\ MergeFrame

\* InputAction.__call__, lines 133-139
InputAction ==
    /\ call.fn = "dd_enhanced" /\ call.at = "parse"
    /\ call.rest # <<>> /\ Head(call.rest)[1] = "-i"
    /\ LET c1 == [call EXCEPT !.has_last_ctx = TRUE, !.last_ctx = "input"]
       IN IF ~c1.has_pairs THEN call' = DdRaise(c1, "AttributeError")
          ELSE call' = DdNextArg([c1 EXCEPT !.pairs =
                          Append(@, [input |-> Head(call.rest)[2], targets |-> <<>>])])
    /\ MergeFrame

\* TargetAction.__call__, lines 143-148
TargetAction ==
    /\ call.fn = "dd_enhanced" /\ call.at = "parse"
    /\ call.rest # <<>> /\ Head(call.rest)[1] = "-t"
    /\ IF ~call.has_last_ctx THEN call' = DdRaise(call, "AttributeError")
       ELSE IF call.last_ctx # "input" THEN call' = DdRaise(call, "usage error")
       ELSE IF ~call.has_pairs THEN call' = DdRaise(call, "AttributeError")
       ELSE IF call.pairs = <<>> THEN call' = DdRaise(call, "usage error")
       ELSE call' = DdNextArg(TargetContext(
                [call EXCEPT !.pairs[Len(call.pairs)].targets =
                                 Append(@, Head(call.rest)[2])]))
    /\ MergeFrame

\* the copies run_dd is called for, in order
RECURSIVE CopiesOf(_)
CopiesOf(pairs) ==
    IF pairs = <<>> THEN <<>>
    ELSE [k \in 1..Len(pairs[1].targets) |-> <<pairs[1].input, pairs[1].targets[k]>>]
         \o CopiesOf(Tail(pairs))

\* main after parse_args, lines 205-247
DdMain ==
    /\ call.fn = "dd_enhanced" /\ call.at = "parse" /\ call.rest = <<>>
    /\ IF ~call.euid_root THEN call' = DdRaise(call, "exit 1")
       ELSE IF call.has_pairs /\ call.pairs # <<>>
       THEN IF \E k \in 1..Len(call.pairs) : call.pairs[k].targets = <<>>
            THEN call' = DdRaise(call, "exit 1")
            ELSE call' = DdRaise([call EXCEPT !.ran = CopiesOf(call.pairs)], "ok")
       ELSE IF Len(call.positional) < 2 THEN call' = DdRaise(call, "usage error")
       ELSE call' = DdRaise([call EXCEPT !.ran =
                        [k \in 1..(Len(call.positional) - 1) |->
                            <<call.positional[1], call.positional[k + 1]>>]], "ok")
    /\ MergeFrame

NextDd ==
    \/ DdContext
    \/ DdPositional
    \/ InputAction
    \/ TargetAction
    \/ DdMain

SpecDd == InitDd /\ [][NextDd]_vars

\* The command line is one -i followed by -t options only, at least one.
InputThenTargets ==
    /\ Len(call.argv) >= 2
    /\ call.argv[1][1] = "-i"
    /\ \A k \in 2..Len(call.argv) : call.argv[k][1] = "-t"

\* C25: after an -i/--input option any number of consecutive -t/--target
\* options is accepted, each appended to the targets of that input: a command
\* line -i IN -t T1 ... -t Tn is parsed into one pair of IN with T1..Tn.
C25_Original ==
    (call.fn = "dd_enhanced" /\ InputThenTargets /\ call.at = "done" /\ call.euid_root) =>
        /\ call.outcome = "ok"
        /\ call.pairs = << [input |-> call.argv[1][2],
                            targets |-> [k \in 1..(Len(call.argv) - 1) |-> call.argv[k + 1][2]]] >>

\* What the parser does with every -i: the attribute _pairs is missing.
C25_InputRaises ==
    (call.fn = "dd_enhanced" /\ \E k \in 1..Len(call.argv) : call.argv[k][1] = "-i") =>
        /\ call.pairs = <<>> /\ call.ran = <<>>
        /\ call.at = "done" => call.outcome \in {"AttributeError", "usage error"}

\* -i in -t o1 -t o2 ended at the -i.
C25_RaisedWitness ==
    /\ call.fn = "dd_enhanced" /\ call.at = "done" /\ call.outcome = "AttributeError"
    /\ call.argv = << <<"-i", "in">>, <<"-t", "o1">>, <<"-t", "o2">> >>
    /\ Len(call.rest) = 3

(***************************************************************************)
(* ssh-keytimer.py: the notifier and the timer.  call.log lists, in order, *)
(* every call of Notifier.send with the message, the remaining seconds of  *)
(* a checkpoint and whether the message was delivered to the backend.      *)
(***************************************************************************)
\* durations of the timer, in seconds: one per branch of the schedule
Totals == {5, 500, 1000, 2000, 4000, 8000}

\* sorted(pts, reverse=True)
RECURSIVE SortedDown(_)
SortedDown(S) ==
    IF S = {} THEN <<>>
    ELSE LET m == CHOOSE x \in S : \A y \in S : y <= x
         IN <<m>> \o SortedDown(S \ {m})

\* schedule_points_remaining; int(t * 0.5), int(t * 0.25) and int(t * 0.1)
\* are the integer quotients for the durations used
schedule_points_remaining(total) ==
    LET t == total
        add(x) == IF 0 < x /\ x < t THEN {x} ELSE {}
        pts == IF 7200 > t /\ t >= 3600
                 THEN add(t \div 2) \cup add(t \div 10) \cup add(600) \cup add(180)
               ELSE IF 3600 > t /\ t >= 1800
                 THEN add(t \div 2) \cup add(t \div 4) \cup add(300)
               ELSE IF 1800 > t /\ t >= 900
                 THEN add(t \div 2) \cup add(180)
               ELSE IF 900 > t /\ t > 480
                 THEN add(t \div 2) \cup add(15)
               ELSE {}
    IN SortedDown(pts \cup {0})

\* A variant of Notifier.send without the exception for the final message.
DeliveredNoForce(n, force_final_under_quiet) == ~n.silence /\ ~n.quiet

\* Notifier.send, lines 268-271: whether the message goes to the backend
Delivered(n, force_final_under_quiet) ==
    ~n.silence /\ (~n.quiet \/ force_final_under_quiet)

\* Notifier.send: the call is logged, delivered or not
send(c, msg, rem, force_final_under_quiet) ==
    [c EXCEPT !.log = Append(@, [msg |-> msg, rem |-> rem,
                                 delivered |-> Delivered(c, force_final_under_quiet)])]

InitTimer ==
    /\ Idle
    /\ top_files_limit = 0
    /\ call \in { [fn |-> "ssh-keytimer", at |-> "main", total |-> t, quiet |-> q,
                    silence |-> s, no_output |-> n, timer_output |-> sh, mode |-> m,
                    key_added |-> k, events |-> <<>>, next_idx |-> 0,
                    interrupted |-> FALSE, log |-> <<>>, code |-> -1] :
                    t \in Totals, q \in BOOLEAN, s \in BOOLEAN, n \in BOOLEAN,
                    sh \in BOOLEAN, m \in {"hyprctl", "notify-send", "none"},
                    k \in BOOLEAN }

allow_output(c) == ~c.no_output /\ ~c.quiet

\* the loop of run_timer that draws the countdown, lines 366-389
Countdown(c) == c.timer_output /\ allow_output(c)

\* main, lines 488-514, and run_timer up to its loop, lines 350-364
TimerStart ==
    /\ call.fn = "ssh-keytimer" /\ call.at = "main"
    /\ IF ~call.key_added THEN call' = [call EXCEPT !.at = "done", !.code = 1]
       ELSE LET c1 == send(call, "SSH lifetime set", -1, FALSE)
                c2 == IF ~allow_output(call) THEN send(c1, "SSH timer set", -1, FALSE)
                      ELSE c1
            IN call' = [c2 EXCEPT !.events = schedule_points_remaining(call.total),
                                  !.at = "timer"]
    /\ MergeFrame

\* run_timer, lines 375-381 and 391-400: the next checkpoint is due
TimerEvent ==
    /\ call.fn = "ssh-keytimer" /\ call.at = "timer"
    /\ ~(Countdown(call) /\ call.interrupted)
    /\ call.next_idx < Len(call.events)
    /\ LET rem == call.events[call.next_idx + 1]
           msg == IF rem = 0 THEN "Time up!" ELSE "Time remaining"
       IN call' = [send(call, msg, rem, rem = 0) EXCEPT !.next_idx = @ + 1]
    /\ MergeFrame

\* _sigint, lines 356-357
TimerSigint ==
    /\ call.fn = "ssh-keytimer" /\ call.at = "timer"
    /\ ~call.interrupted
    /\ call' = [call EXCEPT !.interrupted = TRUE]
    /\ MergeFrame

\* run_timer, lines 369-372: the countdown loop sees the flag
TimerInterrupted ==
    /\ call.fn = "ssh-keytimer" /\ call.at = "timer"
    /\ Countdown(call) /\ call.interrupted
    /\ call' = [send(call, "Timer interrupted", -1, FALSE) EXCEPT !.at = "done", !.code = 0]
    /\ MergeFrame

\* run_timer returns, lines 385-388 and 391; main returns 0
TimerEnd ==
    /\ call.fn = "ssh-keytimer" /\ call.at = "timer"
    /\ ~(Countdown(call) /\ call.interrupted)
    /\ call.next_idx >= Len(call.events)
    /\ call' = [call EXCEPT !.at = "done", !.code = 0]
    /\ MergeFrame

NextTimer ==
    \/ TimerStart
    \/ TimerEvent
    \/ TimerSigint
    \/ TimerInterrupted
    \/ TimerEnd

SpecTimer == InitTimer /\ [][NextTimer]_vars

\* The messages delivered, in order.
Sent == SelectSeq(call.log, LAMBDA e : e.delivered)

\* The run reached the end of the timer: the last checkpoint, 0, is past.
TimerRanOut ==
    /\ call.key_added /\ call.events # <<>>
    /\ call.next_idx = Len(call.events)

\* C26: with --quiet and without --silence-notifications, a run that reaches
\* the end of the timer sends exactly one notification, the final "Time up!",
\* and it comes after every suppressed one (none is sent before the end); with
\* --silence-notifications no notification is ever sent.
C26_QuietFinalOnly ==
    call.fn = "ssh-keytimer" =>
        /\ call.silence => Sent = <<>>
        /\ (call.quiet /\ ~call.silence) =>
              /\ TimerRanOut =>
                    /\ Len(Sent) = 1 /\ Sent[1].msg = "Time up!"
                    /\ call.log[Len(call.log)].delivered
                    /\ Len(call.log) = Len(call.events) + 2
              /\ ~TimerRanOut => Sent = <<>>

\* A quiet run of 4000 seconds: six calls suppressed, then "Time up!".
C26_Witness ==
    /\ call.fn = "ssh-keytimer" /\ call.quiet /\ ~call.silence /\ TimerRanOut
    /\ call.at = "done" /\ call.total = 4000 /\ Len(call.log) = 7
    /\ Sent = << [msg |-> "Time up!", rem |-> 0, delivered |-> TRUE] >>

\* A silenced run that reached the end.
C26_WitnessSilenced ==
    /\ call.fn = "ssh-keytimer" /\ call.silence /\ ~call.quiet /\ TimerRanOut
    /\ call.total = 1000 /\ Len(call.log) = 4 /\ Sent = <<>>

(***************************************************************************)
(* scan_roots as a sequential loop: a statement that can run does run.     *)
(* The fairness conditions are stated on what each step of the loop does   *)
(* to the variables that control it: the index of the root, the directory  *)
(* yielded by os.walk, the entries left in the directory, the return.      *)
(***************************************************************************)
\* for root in roots: the loop takes its next root
RootTick ==
    /\ BetweenRoots
    /\ root_idx < Len(roots)
    /\ root_idx' = root_idx + 1

\* for dirpath, dirnames, filenames in os.walk(...): the next directory
WalkTick ==
    /\ pc = "traversing" /\ filenames = {} /\ stack # <<>>
    /\ visited' = visited \cup { <<root_idx, stack[Len(stack)]>> }

\* for name in filenames: the next entry
EntryTick ==
    /\ pc = "traversing"
    /\ \E name \in filenames : filenames' = filenames \ {name}

\* return ReportData(...)
ReturnTick ==
    /\ BetweenRoots
    /\ root_idx = Len(roots)
    /\ pc' = "done"

FairSpec ==
    /\ Spec
    /\ WF_root_idx(RootTick)
    /\ WF_visited(WalkTick)
    /\ WF_filenames(EntryTick)
    /\ WF_pc(ReturnTick)

\* os.walk yields the directory on top of the stack.
YieldStep == pc = "traversing" /\ filenames = {} /\ stack # <<>> /\ stack' # stack

\* The directory yielded was not yielded before in the walk of this root,
\* under any path.
FirstVisit ==
    LET top == stack[Len(stack)]
    IN /\ <<root_idx, top>> \notin visited
       /\ ~is_under(Realpath(top), exclude_set) =>
             \A v \in visited : ~(v[1] = root_idx /\ Realpath(v[2]) = Realpath(top))

\* C27: scan_roots terminates: once traversing it reaches done, for every
\* list of roots; and within the walk of one root each directory that is not
\* excluded is visited at most once.
C27_Terminates ==
    /\ (pc = "traversing") ~> (pc = "done")
    /\ [][YieldStep => FirstVisit]_vars

\* A scan of two roots, one below the other, came to its end.
C27_Witness ==
    /\ pc = "done" /\ Len(roots) = 2 /\ total_bytes > 0
    /\ \E d \in Dirs : <<1, d>> \in visited /\ <<2, d>> \in visited
    /\ Cardinality({v \in visited : v[1] = 1}) >= 3

(***************************************************************************)
(* Rendering of disk-usage-report.py: export_csv and print_report called   *)
(* on the ReportData that scan_roots returned, in any order, several       *)
(* times.  call counts the CSV files written and keeps the rows of the     *)
(* last one; printed keeps one record per printed report.                  *)
(***************************************************************************)
\* Most calls of each renderer on one report.
MaxRenders == 2

\* list.sort(): the list of the report itself would be put in order.
SortInPlace(items) == SortedDesc(items)

\* sorted(items, ...) builds a new list: the list of the report is as before
SortedLeaves(items) == items

\* the rows of the report: buckets cut to the limit, files largest first
ReportRows(top_dirs_limit) ==
    [ total |-> total_bytes,
      dirs |-> SliceTo(SortedDesc([i \in 1..Len(dir_sizes) |->
                  <<dir_sizes[i][2], dir_sizes[i][1]>>]), top_dirs_limit),
      files |-> SortedDesc(top_files) ]

\* the rows after the header: kind, rank, size_bytes, path
CsvRows(top_dirs_limit) ==
    LET r == ReportRows(top_dirs_limit)
    IN [i \in 1..Len(r.dirs) |-> <<"dir", i, r.dirs[i][1], r.dirs[i][2]>>] \o
       [i \in 1..Len(r.files) |-> <<"file", i, r.files[i][1], r.files[i][2]>>]

\* export_csv, lines 240-266
export_csv ==
    /\ pc \in {"done", "reported"}
    /\ call.fn \in {"none", "export_csv"}
    /\ (call.fn = "export_csv" => call.n < MaxRenders)
    /\ \E top_dirs_limit \in TopDirsArgs :
          call' = [fn |-> "export_csv",
                   n |-> IF call.fn = "none" THEN 1 ELSE call.n + 1,
                   rows |-> CsvRows(top_dirs_limit)]
    /\ dir_sizes' = dir_sizes
    /\ top_files' = SortedLeaves(top_files)
    /\ total_bytes' = total_bytes
    /\ UNCHANGED << params, pc, walk, output, added, placed, offers, dropped, visited >>

\* print_report, lines 279-381, called once more
PrintAgain ==
    /\ pc = "reported"
    /\ Len(printed) < MaxRenders
    /\ \E top_dirs_limit \in TopDirsArgs :
          printed' = Append(printed, ReportRows(top_dirs_limit))
    /\ dir_sizes' = dir_sizes
    /\ top_files' = SortedLeaves(top_files)
    /\ total_bytes' = total_bytes
    /\ UNCHANGED << params, pc, walk, warnings, added, placed, offers, dropped,
                    visited, call >>

NextRender ==
    \/ Next
    \/ export_csv
    \/ PrintAgain

SpecRender == InitTwice /\ [][NextRender]_vars

\* C28: rendering leaves the scan result unchanged: once scan_roots has
\* returned, no call of print_report or export_csv, in any order and any
\* number of times, changes dir_sizes, top_files or total_bytes.
C28_RenderFrame ==
    [][(pc \in {"done", "reported"}) =>
          (dir_sizes' = dir_sizes /\ top_files' = top_files /\ total_bytes' = total_bytes)]_vars

\* Two CSV exports and two printed reports of a result whose list of files
\* is not in the order they are shown in.
C28_Witness ==
    /\ pc = "reported" /\ Len(printed) = 2
    /\ call.fn = "export_csv" /\ call.n = 2
    /\ Len(top_files) >= 2 /\ top_files # SortedDesc(top_files)
    /\ printed[2].files = SortedDesc(top_files)
    /\ Len(dir_sizes) >= 2 /\ total_bytes > 0

(***************************************************************************)
(* kalman_papertrader.py: live_stream_binance.  A poll gets an HTTP error  *)
(* or a list of klines, each <<close_time_ms, close_price>>; call.log has  *)
(* one entry per poll.                                                     *)
(***************************************************************************)
\* Latest close time a kline can have.
MaxTs == 3

\* Most polls of one stream.
MaxPolls == 3

Klines == { <<t, p>> : t \in 1..MaxTs, p \in {10, 11} }

\* what one poll of the endpoint gives
Responses ==
    {[ok |-> FALSE, data |-> <<>>]} \cup
    {[ok |-> TRUE, data |-> d] : d \in SeqsUpTo(Klines, 2)}

\* an exception left the call
Raised == <<>>

\* binance_get_latest_closed_kline, lines 266-279: the kline before the last,
\* or the exception raised
binance_get_latest_closed_kline(response) ==
    IF ~response.ok THEN Raised
    ELSE IF Len(response.data) < 2 THEN Raised
    ELSE response.data[Len(response.data) - 1]

\* A variant of the test of line 418 that lets the same close time through.
IsNewOrSame(ts_ms, last_ts) == last_ts = <<>> \/ ts_ms >= last_ts[1]

\* line 418: last_ts is None or ts_ms > last_ts
IsNew(ts_ms, last_ts) == last_ts = <<>> \/ ts_ms > last_ts[1]

InitLive ==
    /\ Idle
    /\ top_files_limit = 0
    /\ call = [fn |-> "live_stream_binance", last_ts |-> <<>>, yielded |-> <<>>,
               log |-> <<>>, running |-> TRUE]

\* one turn of the loop of live_stream_binance, lines 415-423
Poll ==
    /\ call.fn = "live_stream_binance"
    /\ call.running
    /\ Len(call.log) < MaxPolls
    /\ \E response \in Responses :
          LET k == binance_get_latest_closed_kline(response)
          IN IF k = Raised
             THEN call' = [call EXCEPT !.log = Append(@, "error")]
             ELSE IF IsNew(k[1], call.last_ts)
             THEN call' = [call EXCEPT !.last_ts = <<k[1]>>,
                                       !.yielded = Append(@, k),
                                       !.log = Append(@, "yield")]
             ELSE call' = [call EXCEPT !.log = Append(@, "skip")]
    /\ MergeFrame

NextLive == Poll

SpecLive == InitLive /\ [][NextLive]_vars

\* C30: the candles yielded have strictly increasing close timestamps, so no
\* candle is yielded twice, whatever the polls return; the stream goes on
\* after a failed poll, and last_ts is the close time of the last candle
\* yielded.
C30_StrictlyIncreasing ==
    call.fn = "live_stream_binance" =>
        /\ \A i, j \in 1..Len(call.yielded) :
              i < j => call.yielded[i][1] < call.yielded[j][1]
        /\ call.running
        /\ call.last_ts = IF call.yielded = <<>> THEN <<>>
                          ELSE << call.yielded[Len(call.yielded)][1] >>
        /\ Len(call.yielded) = Cardinality({n \in 1..Len(call.log) : call.log[n] = "yield"})

\* A failed poll, then a candle, then the same candle again, not yielded.
C30_Witness ==
    /\ call.fn = "live_stream_binance"
    /\ call.log = <<"error", "yield", "skip">>
    /\ call.yielded = << <<2, 10>> >>
    /\ call.running

====
